---- MODULE Spec2Model ----
(***************************************************************************)
(* Model of the fix-operation progress coordinators of the music           *)
(* dashboard (src/src/services/fixService.js): executeFixOperation,        *)
(* executeComprehensiveFix and executeAIDeduplication, with the            *)
(* setInterval / setTimeout callbacks as actions and the JavaScript        *)
(* Number arithmetic of the progress computation as IEEE-754 binary64.     *)
(***************************************************************************)
EXTENDS Integers, Sequences, FiniteSets, TLC

(***************************************************************************)
(* JavaScript Numbers (IEEE-754 binary64).  A positive Number is           *)
(* [m |-> limbs, e |-> exponent, ...]: m is the 53-bit significand as a    *)
(* sequence of base-2^18 digits, most significant first, and the value is  *)
(* m * 2^e; the fields floor, round and whole hold its integer part, its   *)
(* nearest integer and whether it is an integer.  Zero is the record with  *)
(* the empty significand.  Working on digits keeps every intermediate      *)
(* value inside the model checker's integers; multipliers and divisors are *)
(* naturals below 2^12.                                                    *)
(***************************************************************************)

\* Width of the binary64 significand.
Precision == 53

\* The base of a significand's digits.
LimbBase == 2 ^ 18

FZero == [m |-> <<>>, e |-> 0, floor |-> 0, round |-> 0, whole |-> TRUE]

RECURSIVE StripZeroLimbs(_)
StripZeroLimbs(ls) ==
    IF ls = <<>> THEN <<>>
    ELSE IF ls[1] # 0 THEN ls
    ELSE StripZeroLimbs(Tail(ls))

RECURSIVE BigTimesCarry(_, _, _)
\* ls * c + carry, digit by digit from the low end.
BigTimesCarry(ls, c, carry) ==
    IF ls = <<>> THEN (IF carry = 0 THEN <<>> ELSE <<carry>>)
    ELSE Append(BigTimesCarry(SubSeq(ls, 1, Len(ls) - 1), c,
                              (ls[Len(ls)] * c + carry) \div LimbBase),
                (ls[Len(ls)] * c + carry) % LimbBase)

BigTimes(ls, c) == StripZeroLimbs(BigTimesCarry(ls, c, 0))

RECURSIVE BigDivModFrom(_, _, _, _, _)
\* Schoolbook division of ls by d from digit i on, with running remainder
\* rem and the quotient digits q found so far.
BigDivModFrom(ls, d, i, rem, q) ==
    IF i > Len(ls) THEN [q |-> q, r |-> rem]
    ELSE BigDivModFrom(ls, d, i + 1, (rem * LimbBase + ls[i]) % d,
                       Append(q, (rem * LimbBase + ls[i]) \div d))

\* A quotient and remainder with the quotient's leading zero digits removed.
StripQuotient(qr) == [q |-> StripZeroLimbs(qr.q), r |-> qr.r]

\* Quotient and remainder of ls by a small positive d.
BigDivMod(ls, d) == StripQuotient(BigDivModFrom(ls, d, 1, 0, <<>>))

RECURSIVE BigPlusOne(_)
BigPlusOne(ls) ==
    IF ls = <<>> THEN <<1>>
    ELSE IF ls[Len(ls)] + 1 < LimbBase
    THEN Append(SubSeq(ls, 1, Len(ls) - 1), ls[Len(ls)] + 1)
    ELSE Append(BigPlusOne(SubSeq(ls, 1, Len(ls) - 1)), 0)

RECURSIVE BigToNat(_)
\* The natural number (below 2^31) a digit sequence denotes.
BigToNat(ls) ==
    IF ls = <<>> THEN 0
    ELSE LimbBase * BigToNat(SubSeq(ls, 1, Len(ls) - 1)) + ls[Len(ls)]

\* Number of significant bits of a natural below 2^18.
BitLengthNat(n) == CHOOSE k \in 0..31 : 2 ^ k > n /\ (k = 0 \/ 2 ^ (k - 1) <= n)

\* Number of significant bits of a digit sequence without leading zeros.
BitLengthStripped(s) ==
    IF s = <<>> THEN 0
    ELSE BitLengthNat(LimbBase - 1) * (Len(s) - 1) + BitLengthNat(s[1])

\* Number of significant bits of a digit sequence.
BitLength(ls) == BitLengthStripped(StripZeroLimbs(ls))

\* Bits shifted in one step: the multiplier 2^k stays below 2^12.
ShiftStep(n) == IF n < 11 THEN n ELSE 11

RECURSIVE ShiftLeft(_, _)
\* ls * 2^n.
ShiftLeft(ls, n) ==
    IF n <= 0 THEN ls
    ELSE ShiftLeft(BigTimes(ls, 2 ^ ShiftStep(n)), n - ShiftStep(n))

RECURSIVE ShiftRight(_, _, _)
RECURSIVE ShiftRightOn(_, _, _)
\* floor(ls / 2^n), with lost: whether a nonzero bit was shifted out.
ShiftRight(ls, n, lost) ==
    IF n <= 0 THEN [q |-> ls, lost |-> lost]
    ELSE ShiftRightOn(BigDivMod(ls, 2 ^ ShiftStep(n)), n - ShiftStep(n), lost)

\* ShiftRight continued after one step gave quotient and remainder d.
ShiftRightOn(d, n, lost) == ShiftRight(d.q, n, lost \/ d.r # 0)

\* floor(2 * ls * 2^e) as digits, with lost: whether bits below it are set.
Doubled(ls, e) ==
    IF e + 1 >= 0 THEN [q |-> ShiftLeft(ls, e + 1), lost |-> FALSE]
    ELSE ShiftRight(ls, 0 - (e + 1), FALSE)

\* The Number record of ls * 2^e given twice = floor(2 * ls * 2^e): the
\* integer part is floor(twice / 2), the nearest integer (halves up)
\* floor((twice + 1) / 2), and the value is whole when no bit below 1 is set.
NumberRecord(ls, e, twice, lost) ==
    [m |-> ls, e |-> e, floor |-> twice \div 2, round |-> (twice + 1) \div 2,
     whole |-> ~lost /\ twice % 2 = 0]

\* NumberRecord from the digits of floor(2 * ls * 2^e).
NumberFrom(ls, e, d) == NumberRecord(ls, e, BigToNat(d.q), d.lost)

\* The Number with significand ls and exponent e, together with its integer
\* part, its nearest integer and whether it is an integer (value below 2^30).
MakeNumber(ls, e) == NumberFrom(ls, e, Doubled(ls, e))

\* The rounded significand after a carry out of the increment.
Carried(inc, e) ==
    IF BitLength(inc) = Precision THEN [m |-> inc, e |-> e]
    ELSE [m |-> BigDivMod(inc, 2).q, e |-> e + 1]

\* Ties-to-even: round up when the discarded part r is above half, or is
\* half and the tail is nonzero or the kept significand is odd.
RoundsUp(lastDigit, r, half, sticky) ==
    \/ r > half
    \/ r = half /\ (sticky \/ lastDigit % 2 = 1)

\* The rounded significand given d, the quotient and remainder of the exact
\* significand by 2^n.
RoundFrom(d, n, e, sticky) ==
    IF RoundsUp(d.q[Len(d.q)], d.r, 2 ^ (n - 1), sticky)
    THEN Carried(BigPlusOne(d.q), e + n)
    ELSE [m |-> d.q, e |-> e + n]

\* The significand and exponent of ls * 2^e rounded to Precision bits, for
\* ls of len bits.
RoundAt(ls, e, sticky, len) ==
    IF len <= Precision
    THEN [m |-> ShiftLeft(ls, Precision - len), e |-> e - (Precision - len)]
    ELSE RoundFrom(BigDivMod(ls, 2 ^ (len - Precision)), len - Precision, e,
                   sticky)

\* The Number of a significand and exponent.
Normal(r) == MakeNumber(r.m, r.e)

\* Round-to-nearest, ties-to-even, of the exact value ls * 2^e (plus a
\* nonzero tail below the last bit when sticky) to a Number.  ls is nonzero
\* and at most 11 bits longer than a significand.
RoundToNumber(ls, e, sticky) == Normal(RoundAt(ls, e, sticky, BitLength(ls)))

\* The Number of a natural number below 2^18.
NumberOfNat(n) ==
    IF n = 0 THEN FZero ELSE RoundToNumber(<<n>>, 0, FALSE)

\* x * c for a Number x and a natural c below 2^11 (JS: x * c).
NumberTimes(x, c) ==
    IF x.m = <<>> \/ c = 0 THEN FZero
    ELSE RoundToNumber(BigTimes(x.m, c), x.e, FALSE)

\* The Number of the quotient r.q * 2^e with remainder r.r as the tail.
RoundQuotient(r, e) == RoundToNumber(r.q, e, r.r # 0)

\* x / d for a Number x and a positive natural d below 2^7 (JS: x / d): the
\* significand is extended by 9 bits so that the quotient has more than
\* Precision bits; the remainder is the sticky tail.
NumberOver(x, d) ==
    IF x.m = <<>> THEN FZero
    ELSE RoundQuotient(BigDivMod(ShiftLeft(x.m, 9), d), x.e - 9)

\* Math.floor(x) for a Number below 2^31.
MathFloor(x) == x.floor

\* Whether x has a nonzero fractional part.
HasFraction(x) == ~x.whole

\* Math.round(x): the nearest integer, halves rounded up.
MathRound(x) == x.round

\* x <= n in place of x < n (for a whole x).
NumberAtMost(x, n) == MathFloor(x) <= n

\* x < n and x >= n for a Number x and a natural n.
NumberLess(x, n) == MathFloor(x) < n
NumberAtLeast(x, n) == MathFloor(x) >= n

\* Math.min(x, n) for a Number x and a natural n.
MathMin(x, n) ==
    IF MathFloor(x) > n \/ (MathFloor(x) = n /\ HasFraction(x))
    THEN NumberOfNat(n) ELSE x

(***************************************************************************)
(* JavaScript objects and values.                                          *)
(***************************************************************************)

\* Property names every object literal inherits from Object.prototype: a
\* lookup obj[key] of such a key yields the inherited (truthy) member.
ObjectPrototypeKeys ==
    {"constructor", "toString", "toLocaleString", "valueOf", "hasOwnProperty",
     "isPrototypeOf", "propertyIsEnumerable", "__proto__"}

\* obj[key] for an object literal obj: an own property, an inherited member
\* of Object.prototype, or undefined.
PropertyLookup(obj, key) ==
    IF key \in DOMAIN obj THEN [kind |-> "own", value |-> obj[key]]
    ELSE IF key \in ObjectPrototypeKeys THEN [kind |-> "inherited"]
    ELSE [kind |-> "undefined"]

\* Truthiness of a looked-up value (own values here are objects).
Truthy(v) == v.kind # "undefined"

\* a || b for a numeric property that may be absent: 0 and undefined are falsy.
NumberOr(obj, key, default) ==
    IF key \in DOMAIN obj /\ obj[key] # 0 THEN obj[key] ELSE default

\* undefined, null, a string (the sequence of its characters) and a number
\* held as a JavaScript value.
Undefined == [kind |-> "undefined"]
Null == [kind |-> "null"]
String(chars) == [kind |-> "string", chars |-> chars]
Num(n) == [kind |-> "number", value |-> n]

(***************************************************************************)
(* fixService.js: static data.                                             *)
(***************************************************************************)

mockFixResults ==
    [missing_primary |->
        [totalIssues |-> 156, deleted |-> 45, repaired |-> 111, errors |-> 0,
         timeEstimate |-> 5000],
     orphaned_songs |->
        [totalIssues |-> 234, fixed |-> 234, relationshipsCreated |-> 387,
         errors |-> 0, timeEstimate |-> 8000],
     inconsistent_artists |->
        [totalIssues |-> 89, fixed |-> 89, errors |-> 0, timeEstimate |-> 4000],
     missing_secondary |->
        [totalIssues |-> 1234, songsProcessed |-> 1234, artistsCreated |-> 67,
         relationshipsCreated |-> 1567, errors |-> 0, timeEstimate |-> 12000]]

\* const totalSteps = 100 (both in executeFixOperation and executeAIDeduplication).
totalSteps == 100

\* The sub-operations of executeComprehensiveFix, in the order of the array.
operations ==
    << [type |-> "missing_primary"], [type |-> "inconsistent_artists"],
       [type |-> "orphaned_songs"], [type |-> "missing_secondary"] >>

\* const phaseWeight = 100 / operations.length (exact: 25).
phaseWeight == 100 \div Len(operations)

\* The start of the phase after i in place of the start of phase i.
phaseStartNext(i) == (i + 1) * phaseWeight

\* const phaseStart = i * phaseWeight.
phaseStart(i) == i * phaseWeight

(***************************************************************************)
(* The fixture catalogs.                                                   *)
(***************************************************************************)

\* mockData.js: the ten most recent songs (created_at is left out).
mockRecentSongs ==
    <<
     [id |-> 47823, song |-> <<"A", "n", "t", "i", "-", "H", "e", "r", "o">>,
      artist_0 |-> <<"T", "a", "y", "l", "o", "r", " ", "S", "w", "i", "f",
          "t">>,
      artist_count |-> 1],
     [id |-> 47822, song |-> <<"F", "l", "o", "w", "e", "r", "s">>,
      artist_0 |-> <<"M", "i", "l", "e", "y", " ", "C", "y", "r", "u", "s">>,
      artist_count |-> 1],
     [id |-> 47821, song |-> <<"U", "n", "h", "o", "l", "y">>,
      artist_0 |-> <<"S", "a", "m", " ", "S", "m", "i", "t", "h">>,
      artist_count |-> 2],
     [id |-> 47820, song |-> <<"A", "s", " ", "I", "t", " ", "W", "a", "s">>,
      artist_0 |-> <<"H", "a", "r", "r", "y", " ", "S", "t", "y", "l", "e",
          "s">>,
      artist_count |-> 1],
     [id |-> 47819,
      song |-> <<"H", "e", "a", "t", " ", "W", "a", "v", "e", "s">>,
      artist_0 |-> <<"G", "l", "a", "s", "s", " ", "A", "n", "i", "m", "a",
          "l", "s">>,
      artist_count |-> 1],
     [id |-> 47818, song |-> <<"B", "a", "d", " ", "H", "a", "b", "i", "t">>,
      artist_0 |-> <<"S", "t", "e", "v", "e", " ", "L", "a", "c", "y">>,
      artist_count |-> 1],
     [id |-> 47817,
      song |-> <<"I", "'", "m", " ", "G", "o", "o", "d", " ", "(", "B", "l",
          "u", "e", ")">>,
      artist_0 |-> <<"D", "a", "v", "i", "d", " ", "G", "u", "e", "t", "t",
          "a">>,
      artist_count |-> 2],
     [id |-> 47816, song |-> <<"C", "r", "e", "e", "p", "i", "n", "'">>,
      artist_0 |-> <<"M", "e", "t", "r", "o", " ", "B", "o", "o", "m", "i",
          "n">>,
      artist_count |-> 3],
     [id |-> 47815,
      song |-> <<"S", "o", "m", "e", "t", "h", "i", "n", "g", " ", "i", "n",
          " ", "t", "h", "e", " ", "O", "r", "a", "n", "g", "e">>,
      artist_0 |-> <<"Z", "a", "c", "h", " ", "B", "r", "y", "a", "n">>,
      artist_count |-> 1],
     [id |-> 47814,
      song |-> <<"A", "b", "o", "u", "t", " ", "D", "a", "m", "n", " ", "T",
          "i", "m", "e">>,
      artist_0 |-> <<"L", "i", "z", "z", "o">>, artist_count |-> 1]
    >>

\* mockData.js: the ten artists with the most songs.
mockTopArtists ==
    <<
     [id |-> 1,
      name |-> <<"T", "a", "y", "l", "o", "r", " ", "S", "w", "i", "f", "t">>,
      song_count |-> 234, primary_count |-> 198, featured_count |-> 36],
     [id |-> 2, name |-> <<"D", "r", "a", "k", "e">>, song_count |-> 187,
      primary_count |-> 156, featured_count |-> 31],
     [id |-> 3,
      name |-> <<"T", "h", "e", " ", "B", "e", "a", "t", "l", "e", "s">>,
      song_count |-> 156, primary_count |-> 156, featured_count |-> 0],
     [id |-> 4,
      name |-> <<"K", "a", "n", "y", "e", " ", "W", "e", "s", "t">>,
      song_count |-> 145, primary_count |-> 123, featured_count |-> 22],
     [id |-> 5,
      name |-> <<"B", "e", "y", "o", "n", "c", "Atilde", "copyright">>,
      song_count |-> 134, primary_count |-> 112, featured_count |-> 22],
     [id |-> 6,
      name |-> <<"E", "d", " ", "S", "h", "e", "e", "r", "a", "n">>,
      song_count |-> 128, primary_count |-> 98, featured_count |-> 30],
     [id |-> 7,
      name |-> <<"A", "r", "i", "a", "n", "a", " ", "G", "r", "a", "n", "d",
          "e">>,
      song_count |-> 119, primary_count |-> 102, featured_count |-> 17],
     [id |-> 8, name |-> <<"E", "m", "i", "n", "e", "m">>,
      song_count |-> 115, primary_count |-> 89, featured_count |-> 26],
     [id |-> 9, name |-> <<"R", "i", "h", "a", "n", "n", "a">>,
      song_count |-> 108, primary_count |-> 87, featured_count |-> 21],
     [id |-> 10,
      name |-> <<"J", "u", "s", "t", "i", "n", " ", "B", "i", "e", "b", "e",
          "r">>,
      song_count |-> 98, primary_count |-> 78, featured_count |-> 20]
    >>

\* The additional songs of mockSongsDatabase (created_at and album are left
\* out).
mockAdditionalSongs ==
    <<
     [id |-> 47813,
      song |-> <<"S", "h", "a", "k", "e", " ", "I", "t", " ", "O", "f", "f">>,
      artist_0 |-> <<"T", "a", "y", "l", "o", "r", " ", "S", "w", "i", "f",
          "t">>,
      artist_count |-> 1, genre_0 |-> <<"P", "o", "p">>,
      release_year |-> 2014],
     [id |-> 47812,
      song |-> <<"B", "l", "i", "n", "d", "i", "n", "g", " ", "L", "i", "g",
          "h", "t", "s">>,
      artist_0 |-> <<"T", "h", "e", " ", "W", "e", "e", "k", "n", "d">>,
      artist_count |-> 1, genre_0 |-> <<"P", "o", "p">>,
      release_year |-> 2019],
     [id |-> 47811,
      song |-> <<"S", "h", "a", "p", "e", " ", "o", "f", " ", "Y", "o", "u">>,
      artist_0 |-> <<"E", "d", " ", "S", "h", "e", "e", "r", "a", "n">>,
      artist_count |-> 1, genre_0 |-> <<"P", "o", "p">>,
      release_year |-> 2017],
     [id |-> 47810,
      song |-> <<"W", "a", "t", "e", "r", "m", "e", "l", "o", "n", " ", "S",
          "u", "g", "a", "r">>,
      artist_0 |-> <<"H", "a", "r", "r", "y", " ", "S", "t", "y", "l", "e",
          "s">>,
      artist_count |-> 1, genre_0 |-> <<"P", "o", "p">>,
      release_year |-> 2020],
     [id |-> 47809,
      song |-> <<"L", "e", "v", "i", "t", "a", "t", "i", "n", "g">>,
      artist_0 |-> <<"D", "u", "a", " ", "L", "i", "p", "a">>,
      artist_count |-> 1, genre_0 |-> <<"P", "o", "p">>,
      release_year |-> 2020],
     [id |-> 47808, song |-> <<"G", "o", "o", "d", " ", "4", " ", "U">>,
      artist_0 |-> <<"O", "l", "i", "v", "i", "a", " ", "R", "o", "d", "r",
          "i", "g", "o">>,
      artist_count |-> 1,
      genre_0 |-> <<"P", "o", "p", " ", "R", "o", "c", "k">>,
      release_year |-> 2021],
     [id |-> 47807, song |-> <<"S", "t", "a", "y">>,
      artist_0 |-> <<"T", "h", "e", " ", "K", "i", "d", " ", "L", "A", "R",
          "O", "I">>,
      artist_count |-> 2, genre_0 |-> <<"P", "o", "p">>,
      release_year |-> 2021],
     [id |-> 47806,
      song |-> <<"I", "n", "d", "u", "s", "t", "r", "y", " ", "B", "a", "b",
          "y">>,
      artist_0 |-> <<"L", "i", "l", " ", "N", "a", "s", " ", "X">>,
      artist_count |-> 2, genre_0 |-> <<"H", "i", "p", " ", "H", "o", "p">>,
      release_year |-> 2021],
     [id |-> 47805, song |-> <<"P", "e", "a", "c", "h", "e", "s">>,
      artist_0 |-> <<"J", "u", "s", "t", "i", "n", " ", "B", "i", "e", "b",
          "e", "r">>,
      artist_count |-> 3, genre_0 |-> <<"R", "&", "B">>,
      release_year |-> 2021],
     [id |-> 47804,
      song |-> <<"D", "r", "i", "v", "e", "r", "s", " ", "L", "i", "c", "e",
          "n", "s", "e">>,
      artist_0 |-> <<"O", "l", "i", "v", "i", "a", " ", "R", "o", "d", "r",
          "i", "g", "o">>,
      artist_count |-> 1, genre_0 |-> <<"P", "o", "p">>,
      release_year |-> 2021],
     [id |-> 47803, song |-> <<"P", "o", "s", "i", "t", "i", "o", "n", "s">>,
      artist_0 |-> <<"A", "r", "i", "a", "n", "a", " ", "G", "r", "a", "n",
          "d", "e">>,
      artist_count |-> 1, genre_0 |-> <<"R", "&", "B">>,
      release_year |-> 2020],
     [id |-> 47802, song |-> <<"W", "i", "l", "l", "o", "w">>,
      artist_0 |-> <<"T", "a", "y", "l", "o", "r", " ", "S", "w", "i", "f",
          "t">>,
      artist_count |-> 1,
      genre_0 |-> <<"A", "l", "t", "e", "r", "n", "a", "t", "i", "v", "e">>,
      release_year |-> 2020],
     [id |-> 47801,
      song |-> <<"T", "h", "e", "r", "e", "f", "o", "r", "e", " ", "I", " ",
          "A", "m">>,
      artist_0 |-> <<"B", "i", "l", "l", "i", "e", " ", "E", "i", "l", "i",
          "s", "h">>,
      artist_count |-> 1,
      genre_0 |-> <<"A", "l", "t", "e", "r", "n", "a", "t", "i", "v", "e">>,
      release_year |-> 2020],
     [id |-> 47800, song |-> <<"M", "o", "o", "d">>,
      artist_0 |-> <<"2", "4", "k", "G", "o", "l", "d", "n">>,
      artist_count |-> 2, genre_0 |-> <<"H", "i", "p", " ", "H", "o", "p">>,
      release_year |-> 2020],
     [id |-> 47799,
      song |-> <<"W", "a", "t", "e", "r", "m", "e", "l", "o", "n", " ", "S",
          "u", "g", "a", "r", " ", "(", "R", "e", "m", "i", "x", ")">>,
      artist_0 |-> <<"H", "a", "r", "r", "y", " ", "S", "t", "y", "l", "e",
          "s">>,
      artist_count |-> 1, genre_0 |-> <<"P", "o", "p">>,
      release_year |-> 2020],
     [id |-> 47798, song |-> <<"C", "i", "r", "c", "l", "e", "s">>,
      artist_0 |-> <<"P", "o", "s", "t", " ", "M", "a", "l", "o", "n", "e">>,
      artist_count |-> 1, genre_0 |-> <<"P", "o", "p">>,
      release_year |-> 2019],
     [id |-> 47797,
      song |-> <<"D", "o", "n", "'", "t", " ", "S", "t", "a", "r", "t", " ",
          "N", "o", "w">>,
      artist_0 |-> <<"D", "u", "a", " ", "L", "i", "p", "a">>,
      artist_count |-> 1, genre_0 |-> <<"P", "o", "p">>,
      release_year |-> 2019],
     [id |-> 47796, song |-> <<"A", "d", "o", "r", "e", " ", "Y", "o", "u">>,
      artist_0 |-> <<"H", "a", "r", "r", "y", " ", "S", "t", "y", "l", "e",
          "s">>,
      artist_count |-> 1, genre_0 |-> <<"P", "o", "p">>,
      release_year |-> 2019],
     [id |-> 47795,
      song |-> <<"B", "l", "i", "n", "d", "i", "n", "g", " ", "L", "i", "g",
          "h", "t", "s", " ", "(", "R", "e", "m", "i", "x", ")">>,
      artist_0 |-> <<"T", "h", "e", " ", "W", "e", "e", "k", "n", "d">>,
      artist_count |-> 2, genre_0 |-> <<"P", "o", "p">>,
      release_year |-> 2020]
    >>

\* const mockSongsDatabase = [...mockRecentSongs, ...]
mockSongsDatabase == mockRecentSongs \o mockAdditionalSongs

\* The additional artists of mockArtistsDatabase.
mockAdditionalArtists ==
    <<
     [id |-> 11,
      name |-> <<"B", "i", "l", "l", "i", "e", " ", "E", "i", "l", "i", "s",
          "h">>,
      song_count |-> 89, primary_count |-> 82, featured_count |-> 7],
     [id |-> 12, name |-> <<"D", "u", "a", " ", "L", "i", "p", "a">>,
      song_count |-> 76, primary_count |-> 71, featured_count |-> 5],
     [id |-> 13,
      name |-> <<"P", "o", "s", "t", " ", "M", "a", "l", "o", "n", "e">>,
      song_count |-> 68, primary_count |-> 58, featured_count |-> 10],
     [id |-> 14,
      name |-> <<"O", "l", "i", "v", "i", "a", " ", "R", "o", "d", "r", "i",
          "g", "o">>,
      song_count |-> 65, primary_count |-> 63, featured_count |-> 2],
     [id |-> 15,
      name |-> <<"T", "h", "e", " ", "W", "e", "e", "k", "n", "d">>,
      song_count |-> 92, primary_count |-> 85, featured_count |-> 7],
     [id |-> 16, name |-> <<"L", "i", "l", " ", "N", "a", "s", " ", "X">>,
      song_count |-> 45, primary_count |-> 38, featured_count |-> 7],
     [id |-> 17, name |-> <<"2", "4", "k", "G", "o", "l", "d", "n">>,
      song_count |-> 34, primary_count |-> 28, featured_count |-> 6],
     [id |-> 18,
      name |-> <<"T", "h", "e", " ", "K", "i", "d", " ", "L", "A", "R", "O",
          "I">>,
      song_count |-> 41, primary_count |-> 35, featured_count |-> 6]
    >>

\* const mockArtistsDatabase = [...mockTopArtists, ...]
mockArtistsDatabase == mockTopArtists \o mockAdditionalArtists

\* The alias lists, keyed by song id and by artist id.
mockSongAliases ==
    47823 :> <<<<"A", "n", "t", "i", "-", "H", "e", "r", "o">>,
              <<"A", "n", "t", "i", " ", "H", "e", "r", "o">>,
              <<"A", "n", "t", "i", "-", "H", "e", "r", "o", " ", "(", "T",
          "a", "y", "l", "o", "r", "'", "s", " ", "V", "e", "r", "s", "i",
          "o", "n", ")">>>>
    @@ 47822 :> <<<<"F", "l", "o", "w", "e", "r", "s">>,
              <<"F", "l", "o", "w", "e", "r", "s", " ", "(", "M", "i", "l",
          "e", "y", " ", "C", "y", "r", "u", "s", ")">>,
              <<"M", "i", "l", "e", "y", " ", "C", "y", "r", "u", "s", " ",
          "-", " ", "F", "l", "o", "w", "e", "r", "s">>>>
    @@ 47799 :> <<<<"W", "a", "t", "e", "r", "m", "e", "l", "o", "n", " ",
          "S", "u", "g", "a", "r", " ", "(", "R", "e", "m", "i", "x", ")">>,
              <<"W", "a", "t", "e", "r", "m", "e", "l", "o", "n", " ", "S",
          "u", "g", "a", "r", " ", "-", " ", "R", "e", "m", "i", "x">>,
              <<"W", "S", " ", "R", "e", "m", "i", "x">>>>
    @@ 47795 :> <<<<"B", "l", "i", "n", "d", "i", "n", "g", " ", "L", "i",
          "g", "h", "t", "s", " ", "(", "R", "e", "m", "i", "x", ")">>,
              <<"B", "l", "i", "n", "d", "i", "n", "g", " ", "L", "i", "g",
          "h", "t", "s", " ", "-", " ", "R", "e", "m", "i", "x">>,
              <<"B", "L", " ", "R", "e", "m", "i", "x">>>>
    @@ 47813 :> <<<<"S", "h", "a", "k", "e", " ", "I", "t", " ", "O", "f",
          "f">>,
              <<"S", "h", "a", "k", "e", " ", "I", "t", " ", "O", "f", "f",
          " ", "(", "T", "a", "y", "l", "o", "r", "'", "s", " ", "V", "e",
          "r", "s", "i", "o", "n", ")">>,
              <<"S", "h", "a", "k", "e", " ", "I", "t", " ", "O", "f", "f",
          " ", "-", " ", "1", "9", "8", "9">>>>

mockArtistAliases ==
    1 :> <<<<"T", "a", "y", "l", "o", "r", " ", "S", "w", "i", "f", "t">>,
              <<"T", "-", "S", "w", "i", "f", "t">>,
              <<"T", "a", "y", "l", "o", "r", " ", "A", "l", "i", "s", "o",
          "n", " ", "S", "w", "i", "f", "t">>,
              <<"T", "a", "y">>>>
    @@ 2 :> <<<<"D", "r", "a", "k", "e">>,
              <<"D", "r", "i", "z", "z", "y">>,
              <<"A", "u", "b", "r", "e", "y", " ", "G", "r", "a", "h", "a",
          "m">>,
              <<"6", " ", "G", "o", "d">>>>
    @@ 15 :> <<<<"T", "h", "e", " ", "W", "e", "e", "k", "n", "d">>,
              <<"A", "b", "e", "l", " ", "T", "e", "s", "f", "a", "y", "e">>,
              <<"A", "b", "e", "l">>,
              <<"X", "O">>>>
    @@ 11 :> <<<<"B", "i", "l", "l", "i", "e", " ", "E", "i", "l", "i", "s",
          "h">>,
              <<"B", "i", "l", "l", "i", "e">>,
              <<"B", "i", "l", "l", "i", "e", " ", "E", "i", "l", "i", "s",
          "h", " ", "P", "i", "r", "a", "t", "e", " ", "B", "a", "i", "r",
          "d", " ", "O", "'", "C", "o", "n", "n", "e", "l", "l">>>>

(***************************************************************************)
(* Inputs of the callers.                                                  *)
(***************************************************************************)

\* Largest settings.maxAICalls a caller passes in the model.
MaxAICalls == 3

\* Operation-type strings passed to executeFixOperation: the four templates,
\* a name that is no property at all, and a name Object.prototype defines.
OperationTypeInputs == DOMAIN mockFixResults \cup {"unknown_fix", "constructor"}

\* The type argument of executeAIDeduplication.
DedupTypeInputs == {"artists", "songs", "albums"}

\* The settings argument of executeAIDeduplication: undefined, an object
\* without maxAICalls, or an object with maxAICalls in 0..MaxAICalls.
\* similarity is held in hundredths.
SettingsInputs ==
    {[defined |-> FALSE, obj |-> [similarity |-> 0]]}
    \cup {[defined |-> TRUE, obj |-> [similarity |-> 90]]}
    \cup {[defined |-> TRUE, obj |-> [maxAICalls |-> n]] : n \in 0..MaxAICalls}

(***************************************************************************)
(* The components: the values their useState calls start from.             *)
(***************************************************************************)

\* SearchInterface: the filters a new or cleared search form holds.
DefaultFilters ==
    [type |-> String(<<"a", "l", "l">>), year |-> String(<<>>),
     genre |-> String(<<>>), artistCount |-> String(<<>>),
     minSongs |-> String(<<>>), maxSongs |-> String(<<>>), limit |-> Num(20)]

\* SearchInterface: const [...] = useState(...).  inputRef and
\* suggestionsRef hold DOM nodes only.
SearchInterfaceState ==
    [searchQuery |-> <<>>, suggestions |-> <<>>, showSuggestions |-> FALSE,
     loading |-> FALSE, searchMode |-> "simple", filters |-> DefaultFilters,
     results |-> [songs |-> <<>>, artists |-> <<>>], hasSearched |-> FALSE]

\* DatabaseFixesTab: const [...] = useState(...).  data is the issue
\* counts the cards show; it is held as whether it was loaded.
DatabaseFixesTabState ==
    [loading |-> TRUE, error |-> Null, data |-> "initial",
     showProgress |-> FALSE, progressData |-> Null, operationResults |-> Null,
     isOperationComplete |-> FALSE, currentOperation |-> Null]

\* ProgressModal that is not rendered: no instance, so no logs.
Unmounted == [mounted |-> FALSE, logs |-> <<>>, message |-> Undefined,
              completed |-> <<FALSE, Null>>]

(***************************************************************************)
(* State.                                                                  *)
(***************************************************************************)
VARIABLES
    call,      \* the coordinator call under way: [api, onProgress, ...arguments]
    promise,   \* the promise returned to the caller: [state, value | error]
    fixOps,    \* the executeFixOperation invocations: each one's closure,
               \* timers and promise, in the order they were started
    compOp,    \* executeComprehensiveFix: [pc, i, awaiting, results]
    aiOp,      \* closure of the executeAIDeduplication invocation and its timers
    emitted,   \* the events passed to the caller's onProgress, in order
    history,   \* what the run did, in order: [what, idx] (timers, settlements)
    invocations, \* executeFixOperation invocations of concurrent callers:
                 \* each one's closure and promise, in the order of the calls
    timers,    \* the timer each of those invocations registered, by timer id
    received,  \* the events each caller's own callback was passed, by callback
    request,   \* the search-service call under way: [api, ...arguments]
    response,  \* the promise that call returned: [state, value | error]
    consulted, \* whether that call has read a catalog
    fixtures,  \* the contents of the module-level arrays and objects of
               \* searchService.js: [songs, artists, songAliases, artistAliases]
    searchInterface, \* the state of the SearchInterface component (useState)
    pendingCalls,    \* its debounce timer and the service calls it started
                     \* that have not settled
    fixesTab,  \* the state of the DatabaseFixesTab component (useState)
    tabTasks,  \* its pending work: loadData, the operation under way, the
               \* reload timer
    modal      \* the ProgressModal instance: [mounted, logs, the dependency
               \* values its effects last ran for]

concurrentVars == <<invocations, timers, received>>
searchVars == <<request, response, consulted, fixtures>>
interfaceVars == <<searchInterface, pendingCalls>>
tabVars == <<fixesTab, tabTasks, modal>>
coordinatorVars == <<call, promise, fixOps, compOp, aiOp, emitted, history>>

vars == <<call, promise, fixOps, compOp, aiOp, emitted, history,
          invocations, timers, received, request, response, consulted,
          fixtures, searchInterface, pendingCalls, fixesTab, tabTasks, modal>>

NoAIOp == [type |-> "", timer |-> "none", currentStep |-> 0, progress |-> FZero,
           isArtistDedup |-> FALSE, ai_calls_made |-> 0]

Pending == [state |-> "pending"]
Rejected(message) == [state |-> "rejected", error |-> message]
Resolved(report) == [state |-> "resolved", value |-> report]

Did(what, idx) == [what |-> what, idx |-> idx]

\* if (onProgress) onProgress(event)
Deliver(onProgress, events, event) ==
    IF onProgress THEN Append(events, event) ELSE events

Init ==
    /\ call = [api |-> "none", onProgress |-> FALSE]
    /\ promise = Pending
    /\ fixOps = <<>>
    /\ compOp = [pc |-> "idle", i |-> 0, awaiting |-> 0, results |-> <<>>]
    /\ aiOp = NoAIOp
    /\ emitted = <<>>
    /\ history = <<>>
    /\ invocations = <<>>
    /\ timers = <<>>
    /\ received = <<>>
    /\ request = [api |-> "none"]
    /\ response = Pending
    /\ consulted = FALSE
    /\ fixtures = [songs |-> mockSongsDatabase, artists |-> mockArtistsDatabase,
                   songAliases |-> mockSongAliases,
                   artistAliases |-> mockArtistAliases]
    /\ searchInterface = SearchInterfaceState
    /\ pendingCalls = [debounce |-> TRUE, suggestions |-> <<>>, searches |-> <<>>,
                       issued |-> 0, shown |-> 0, cleared |-> FALSE,
                       latest |-> SearchInterfaceState.results]
    /\ fixesTab = DatabaseFixesTabState
    /\ tabTasks = [load |-> "effect", operation |-> Null, reload |-> FALSE,
                   started |-> 0]
    /\ modal = Unmounted

(***************************************************************************)
(* executeFixOperation.                                                    *)
(***************************************************************************)

\* progress = Math.min((currentStep / totalSteps) * 100, 100)
ComputeProgress(currentStep) ==
    MathMin(NumberTimes(NumberOver(NumberOfNat(currentStep), totalSteps), 100), 100)

\* The values of progress for the steps a run can reach, computed once.
ProgressByStep == [currentStep \in 0..(totalSteps + 1) |-> ComputeProgress(currentStep)]

\* progress after currentStep++ (the tabulated ComputeProgress).
StepProgress(currentStep) ==
    IF currentStep \in DOMAIN ProgressByStep THEN ProgressByStep[currentStep]
    ELSE ComputeProgress(currentStep)

\* The phase label of a tick: the if / else-if chains over operationType and
\* the unrounded progress; '' when no branch names the operation type.
FixPhase(operationType, progress) ==
    IF operationType = "missing_primary" THEN
        IF NumberLess(progress, 30) THEN "Analysis"
        ELSE IF NumberLess(progress, 60) THEN "Deletion"
        ELSE IF NumberLess(progress, 90) THEN "Repair"
        ELSE "Verification"
    ELSE IF operationType = "orphaned_songs" THEN
        IF NumberLess(progress, 25) THEN "Discovery"
        ELSE IF NumberLess(progress, 75) THEN "Repair"
        ELSE "Verification"
    ELSE IF operationType = "inconsistent_artists" THEN
        IF NumberLess(progress, 40) THEN "Analysis"
        ELSE IF NumberLess(progress, 80) THEN "Update"
        ELSE "Verification"
    ELSE IF operationType = "missing_secondary" THEN
        IF NumberLess(progress, 20) THEN "Analysis"
        ELSE IF NumberLess(progress, 40) THEN "Creation"
        ELSE IF NumberLess(progress, 80) THEN "Relationships"
        ELSE "Verification"
    ELSE ""

\* The object passed to onProgress by a tick of executeFixOperation.
FixEvent(operationType, currentStep, progress) ==
    [progress |-> MathRound(progress),
     phase |-> FixPhase(operationType, progress),
     currentStep |-> currentStep,
     totalSteps |-> totalSteps]

\* A tick that stops one step early.
FixFinishedEarly(progress) == NumberAtLeast(progress, 99)

\* if (progress >= 100): the tick that stops the interval.
FixFinished(progress) == NumberAtLeast(progress, 100)

\* The value executeFixOperation resolves with.
FixReport(operationType) ==
    [success |-> TRUE,
     operationType |-> operationType,
     results |-> PropertyLookup(mockFixResults, operationType)]

\* The synchronous part of executeFixOperation(operationType, cb): the
\* template lookup, the simulated network check (netFails: Math.random()
\* fell under 0.05) and setInterval.  Yields the state of the returned
\* promise and, when the timer was started, the closure (owner: who passed
\* the callback; i: the loop index the comprehensive callback captured).
StartFixOperation(operationType, owner, i, netFails) ==
    LET fixResult == PropertyLookup(mockFixResults, operationType)
    IN  IF ~Truthy(fixResult)
        THEN [promise |-> Rejected("Unknown fix operation"), ops |-> <<>>,
              did |-> <<>>]
        ELSE IF netFails
        THEN [promise |-> Rejected("Network connection failed"), ops |-> <<>>,
              did |-> <<>>]
        ELSE [promise |-> Pending,
              ops |-> << [operationType |-> operationType, owner |-> owner,
                          i |-> i, timer |-> "interval", currentStep |-> 0,
                          progress |-> FZero, settled |-> FALSE] >>,
              did |-> <<Did("setInterval", i)>>]

\* A caller invokes executeFixOperation(operationType, onProgress).
CallExecuteFixOperation ==
    /\ call.api = "none"
    /\ \E operationType \in OperationTypeInputs, onProgress \in BOOLEAN,
          netFails \in BOOLEAN :
          LET start == StartFixOperation(operationType, "caller", 0, netFails)
          IN  /\ call' = [api |-> "fix", onProgress |-> onProgress,
                          operationType |-> operationType]
              /\ promise' = start.promise
              /\ fixOps' = fixOps \o start.ops
              /\ history' = history \o start.did
                    \o (IF start.promise.state = "rejected"
                        THEN <<Did("reject", 0)>> ELSE <<>>)
    /\ UNCHANGED <<compOp, aiOp, emitted>>
    /\ UNCHANGED <<concurrentVars, searchVars, interfaceVars, tabVars>>

(***************************************************************************)
(* executeComprehensiveFix: helpers.                                       *)
(***************************************************************************)

\* The phase announcement emitted before sub-operation i (0-based) starts.
\* The label `Phase ${i + 1}/4` is held as the tuple <<"Phase", i + 1, 4>>.
PhaseAnnouncement(i) ==
    [progress |-> phaseStart(i),
     phase |-> <<"Phase", i + 1, 4>>,
     currentPhase |-> i + 1,
     totalPhases |-> Len(operations)]

\* A projection that leaves out the phase weight.
AdjustedProgressUnweighted(i, subProgress) ==
    4 * phaseStart(i) + 4 * subProgress

\* adjustedProgress = phaseStart + (subProgress.progress * phaseWeight / 100),
\* in quarters: subProgress.progress is an integer, so the quotient is a
\* multiple of 1/4 and every step of the Number arithmetic is exact.
AdjustedProgressQuarters(i, subProgress) ==
    4 * phaseStart(i) + (4 * subProgress * phaseWeight) \div 100

\* Math.round of a value given in quarters (halves round up).
RoundQuarters(q) == (q + 2) \div 4

\* The event the sub-operation callback of phase i passes on for subProgress.
\* The label `Phase ${i + 1}/4: ${subProgress.phase}` is held as a tuple.
ProjectedEvent(i, subProgress) ==
    [progress |-> RoundQuarters(AdjustedProgressQuarters(i, subProgress.progress)),
     phase |-> <<"Phase", i + 1, 4, subProgress.phase>>,
     currentPhase |-> i + 1,
     totalPhases |-> Len(operations),
     subProgress |-> subProgress.progress]

RECURSIVE SumErrors(_, _)
\* Object.values(results).reduce((sum, r) => sum + r.errors, 0)
SumErrors(results, keys) ==
    IF keys = {} THEN 0
    ELSE LET k == CHOOSE x \in keys : TRUE
         IN  results[k].errors + SumErrors(results, keys \ {k})

\* Totals that leave the orphaned-songs counters out of the sums.
TotalsWithoutOrphaned(results) ==
    [songsProcessed |-> results.missing_primary.repaired
                        + results.missing_secondary.songsProcessed,
     recordsDeleted |-> results.missing_primary.deleted,
     relationshipsCreated |-> results.missing_secondary.relationshipsCreated,
     artistsCreated |-> results.missing_secondary.artistsCreated,
     inconsistenciesFixed |-> results.inconsistent_artists.fixed,
     totalErrors |-> SumErrors(results, DOMAIN results)]

\* const totals = {...}
Totals(results) ==
    [songsProcessed |-> results.missing_primary.repaired
                        + results.orphaned_songs.fixed
                        + results.missing_secondary.songsProcessed,
     recordsDeleted |-> results.missing_primary.deleted,
     relationshipsCreated |-> results.orphaned_songs.relationshipsCreated
                              + results.missing_secondary.relationshipsCreated,
     artistsCreated |-> results.missing_secondary.artistsCreated,
     inconsistenciesFixed |-> results.inconsistent_artists.fixed,
     totalErrors |-> SumErrors(results, DOMAIN results)]

\* The value executeComprehensiveFix resolves with ({...results, totals} is
\* held as the two fields results and totals).
ComprehensiveReport(results) ==
    [success |-> TRUE,
     operationType |-> "comprehensive",
     results |-> results,
     totals |-> Totals(results)]

\* results[operation.type] = result.results
StoreResult(results, type, value) ==
    [k \in DOMAIN results \cup {type} |-> IF k = type THEN value ELSE results[k]]

\* A loop that goes on without waiting for the sub-operation.
AwaitSkipped(op) == TRUE

\* await executeFixOperation(...): the loop goes on once the awaited
\* sub-operation's promise is resolved.
AwaitReady(op) == op.settled

\* One pass of the for-loop body up to its await, for index i: the
\* announcement and the call of executeFixOperation; a rejected sub-operation
\* is thrown by the await and rejects the comprehensive promise in the catch.
BeginPhase(i, onProgress, netFails, results, events, ops) ==
    LET start == StartFixOperation(operations[i + 1].type, "comprehensive", i,
                                   netFails)
    IN  [emitted |-> Deliver(onProgress, events, PhaseAnnouncement(i)),
         fixOps  |-> ops \o start.ops,
         promise |-> start.promise,
         compOp  |-> [pc |-> IF start.promise.state = "rejected" THEN "done"
                             ELSE "awaitOp",
                      i |-> i, awaiting |-> Len(ops) + 1, results |-> results],
         did     |-> <<Did("announce", i)>> \o start.did
                       \o (IF start.promise.state = "rejected"
                           THEN <<Did("reject", i)>> ELSE <<>>)]

(***************************************************************************)
(* executeFixOperation: the timer callbacks.                               *)
(***************************************************************************)

\* The setInterval callback of invocation id of executeFixOperation.  The
\* callback of a sub-operation of executeComprehensiveFix projects the event
\* into the overall range before passing it on.
FixTick(id) ==
    /\ fixOps[id].timer = "interval"
    /\ LET op          == fixOps[id]
           currentStep == op.currentStep + 1
           progress    == StepProgress(currentStep)
           event       == FixEvent(op.operationType, currentStep, progress)
           finished    == FixFinished(progress)
       IN  /\ fixOps' = [fixOps EXCEPT ![id].currentStep = currentStep,
                                       ![id].progress = progress,
                                       ![id].timer = IF finished THEN "timeout"
                                                     ELSE "interval"]
           /\ emitted' =
                 IF op.owner = "caller"
                 THEN Deliver(call.onProgress, emitted, event)
                 ELSE Deliver(call.onProgress, emitted, ProjectedEvent(op.i, event))
           /\ history' = history \o <<Did("tick", op.i)>>
                 \o (IF finished THEN <<Did("clearInterval", op.i)>> ELSE <<>>)
    /\ UNCHANGED <<call, promise, compOp, aiOp>>
    /\ UNCHANGED <<concurrentVars, searchVars, interfaceVars, tabVars>>

\* A timeout callback that stops the timer but never calls resolve.
FixSettleWithoutResolve(id) ==
    /\ fixOps[id].timer = "timeout"
    /\ fixOps' = [fixOps EXCEPT ![id].timer = "none"]
    /\ UNCHANGED <<call, promise, compOp, aiOp, emitted, history>>
    /\ UNCHANGED <<concurrentVars, searchVars, interfaceVars, tabVars>>

\* The setTimeout(..., 500) callback of invocation id of
\* executeFixOperation: resolve.
FixSettle(id) ==
    /\ fixOps[id].timer = "timeout"
    /\ fixOps' = [fixOps EXCEPT ![id].timer = "none", ![id].settled = TRUE]
    /\ IF fixOps[id].owner = "caller"
       THEN /\ promise' = Resolved(FixReport(fixOps[id].operationType))
            /\ history' = Append(history, Did("resolve", 0))
       ELSE /\ history' = Append(history, Did("subResolved", fixOps[id].i))
            /\ UNCHANGED promise
    /\ UNCHANGED <<call, compOp, aiOp, emitted>>
    /\ UNCHANGED <<concurrentVars, searchVars, interfaceVars, tabVars>>

(***************************************************************************)
(* executeComprehensiveFix.                                                *)
(***************************************************************************)

\* A caller invokes executeComprehensiveFix(onProgress): the network check,
\* then the first pass of the loop up to its await.  The sub-operation makes
\* a network check of its own (subFails).
CallExecuteComprehensiveFix ==
    /\ call.api = "none"
    /\ \E onProgress \in BOOLEAN, netFails \in BOOLEAN, subFails \in BOOLEAN :
          /\ call' = [api |-> "comprehensive", onProgress |-> onProgress]
          /\ IF netFails
             THEN /\ promise' = Rejected("Network connection failed")
                  /\ compOp' = [compOp EXCEPT !.pc = "done"]
                  /\ history' = Append(history, Did("reject", 0))
                  /\ UNCHANGED <<fixOps, emitted>>
             ELSE LET begin == BeginPhase(0, onProgress, subFails, <<>>, emitted,
                                          fixOps)
                  IN  /\ promise' = begin.promise
                      /\ compOp' = begin.compOp
                      /\ fixOps' = begin.fixOps
                      /\ emitted' = begin.emitted
                      /\ history' = history \o begin.did
    /\ UNCHANGED aiOp
    /\ UNCHANGED <<concurrentVars, searchVars, interfaceVars, tabVars>>

\* The await of the sub-operation continues: results[operation.type] =
\* result.results, and the 1000 ms pause is started.
CompSubOperationDone ==
    /\ compOp.pc = "awaitOp"
    /\ AwaitReady(fixOps[compOp.awaiting])
    /\ LET type == fixOps[compOp.awaiting].operationType
       IN  compOp' = [compOp EXCEPT
               !.pc = "pause",
               !.results = StoreResult(compOp.results, operations[compOp.i + 1].type,
                                       FixReport(type).results.value)]
    /\ history' = Append(history, Did("pauseStarted", compOp.i))
    /\ UNCHANGED <<call, promise, fixOps, aiOp, emitted>>
    /\ UNCHANGED <<concurrentVars, searchVars, interfaceVars, tabVars>>

\* The setTimeout(resolve, 1000) pause between sub-operations elapses: the
\* loop goes on with the next sub-operation, or, after the last one, the
\* totals are computed and the promise is resolved.
CompPauseElapsed ==
    /\ compOp.pc = "pause"
    /\ LET i == compOp.i + 1
       IN  IF i < Len(operations)
           THEN \E subFails \in BOOLEAN :
                   LET begin == BeginPhase(i, call.onProgress, subFails,
                                           compOp.results, emitted, fixOps)
                   IN  /\ promise' = begin.promise
                       /\ compOp' = begin.compOp
                       /\ fixOps' = begin.fixOps
                       /\ emitted' = begin.emitted
                       /\ history' = Append(history, Did("pauseElapsed", compOp.i))
                                        \o begin.did
           ELSE /\ promise' = Resolved(ComprehensiveReport(compOp.results))
                /\ compOp' = [compOp EXCEPT !.pc = "done", !.i = i]
                /\ history' = history \o <<Did("pauseElapsed", compOp.i),
                                           Did("resolve", 0)>>
                /\ UNCHANGED <<fixOps, emitted>>
    /\ UNCHANGED <<call, aiOp>>
    /\ UNCHANGED <<concurrentVars, searchVars, interfaceVars, tabVars>>

(***************************************************************************)
(* executeAIDeduplication.                                                 *)
(***************************************************************************)

\* ai_calls_made: isArtistDedup ? settings.maxAICalls || 50 : 0
AICallsMade(isArtistDedup, settings) ==
    IF isArtistDedup THEN NumberOr(settings, "maxAICalls", 50) ELSE 0

\* const mockResults = {...}; similarity_threshold in hundredths and
\* estimated_cost in cents (one cent per call).
AIMockResults(isArtistDedup, settings) ==
    [similarity_threshold |-> NumberOr(settings, "similarity", 85),
     items_analyzed |-> IF isArtistDedup THEN 1500 ELSE 5000,
     groups_found |-> IF isArtistDedup THEN 45 ELSE 123,
     ai_calls_made |-> AICallsMade(isArtistDedup, settings),
     ai_verified |-> IF isArtistDedup THEN 32 ELSE 0,
     high_similarity_matches |-> IF isArtistDedup THEN 13 ELSE 123,
     aliases_created |-> IF isArtistDedup THEN 187 ELSE 456,
     estimated_cost |-> IF isArtistDedup THEN NumberOr(settings, "maxAICalls", 50)
                        ELSE 0,
     timeEstimate |-> IF isArtistDedup THEN 15000 ELSE 10000]

\* The phase label of a tick of executeAIDeduplication.
AIPhase(isArtistDedup, progress) ==
    IF isArtistDedup THEN
        IF NumberLess(progress, 20) THEN "Analysis"
        ELSE IF NumberLess(progress, 60) THEN "AI Verification"
        ELSE IF NumberLess(progress, 90) THEN "Alias Creation"
        ELSE "Verification"
    ELSE
        IF NumberLess(progress, 30) THEN "Name Cleaning"
        ELSE IF NumberLess(progress, 70) THEN "Duplicate Detection"
        ELSE IF NumberLess(progress, 90) THEN "Alias Creation"
        ELSE "Verification"

\* if (progress >= 100): the tick that stops the interval.
AIFinished(progress) == NumberAtLeast(progress, 100)

\* Math.floor(progress * mockResults.ai_calls_made / 100)
ComputeAICallsUsed(progress, ai_calls_made) ==
    MathFloor(NumberOver(NumberTimes(progress, ai_calls_made), 100))

\* The values ai_calls_made can take: 0, the default 50 and the inputs.
AICallBudgets == {0, 50} \cup 0..MaxAICalls

\* ComputeAICallsUsed for every budget and step of a run, computed once.
AICallsUsedByStep ==
    [ai_calls_made \in AICallBudgets |->
        [currentStep \in 1..totalSteps |->
            ComputeAICallsUsed(StepProgress(currentStep), ai_calls_made)]]

\* aiCallsUsed of the tick that made currentStep (progress is
\* StepProgress(currentStep)).
AICallsUsed(currentStep, ai_calls_made) ==
    IF ai_calls_made \in AICallBudgets /\ currentStep \in 1..totalSteps
    THEN AICallsUsedByStep[ai_calls_made][currentStep]
    ELSE ComputeAICallsUsed(StepProgress(currentStep), ai_calls_made)

\* The object passed to onProgress by a tick of executeAIDeduplication.
AIEvent(op, currentStep, progress) ==
    [progress |-> MathRound(progress),
     phase |-> AIPhase(op.isArtistDedup, progress),
     currentStep |-> currentStep,
     totalSteps |-> totalSteps,
     aiCallsUsed |-> AICallsUsed(currentStep, op.ai_calls_made),
     maxAICalls |-> op.ai_calls_made]

\* The value executeAIDeduplication resolves with; the operation type
\* `ai_${type}_deduplication` is held as a tuple.
AIReport(op) ==
    [success |-> TRUE,
     operationType |-> <<"ai", op.type, "deduplication">>,
     results |-> op.mockResults]

\* A caller invokes executeAIDeduplication(type, settings, onProgress): the
\* network check, mockResults (a TypeError when settings is undefined) and
\* setInterval.
CallExecuteAIDeduplication ==
    /\ call.api = "none"
    /\ \E type \in DedupTypeInputs, settings \in SettingsInputs,
          onProgress \in BOOLEAN, netFails \in BOOLEAN :
          /\ call' = [api |-> "ai", onProgress |-> onProgress, type |-> type,
                      settings |-> settings]
          /\ IF netFails \/ ~settings.defined
             THEN /\ promise' = Rejected(IF netFails THEN "Network connection failed"
                                         ELSE "TypeError")
                  /\ history' = Append(history, Did("reject", 0))
                  /\ UNCHANGED aiOp
             ELSE LET isArtistDedup == type = "artists"
                      mockResults == AIMockResults(isArtistDedup, settings.obj)
                  IN  /\ promise' = Pending
                      /\ aiOp' = [type |-> type, timer |-> "interval",
                                  currentStep |-> 0, progress |-> FZero,
                                  isArtistDedup |-> isArtistDedup,
                                  ai_calls_made |-> mockResults.ai_calls_made,
                                  mockResults |-> mockResults]
                      /\ history' = Append(history, Did("setInterval", 0))
    /\ UNCHANGED <<fixOps, compOp, emitted>>
    /\ UNCHANGED <<concurrentVars, searchVars, interfaceVars, tabVars>>

\* The setInterval callback of executeAIDeduplication.
AITick ==
    /\ aiOp.timer = "interval"
    /\ LET currentStep == aiOp.currentStep + 1
           progress    == StepProgress(currentStep)
           finished    == AIFinished(progress)
       IN  /\ aiOp' = [aiOp EXCEPT !.currentStep = currentStep,
                                   !.progress = progress,
                                   !.timer = IF finished THEN "timeout"
                                             ELSE "interval"]
           /\ emitted' = Deliver(call.onProgress, emitted,
                                 AIEvent(aiOp, currentStep, progress))
           /\ history' = history \o <<Did("tick", 0)>>
                 \o (IF finished THEN <<Did("clearInterval", 0)>> ELSE <<>>)
    /\ UNCHANGED <<call, promise, fixOps, compOp>>
    /\ UNCHANGED <<concurrentVars, searchVars, interfaceVars, tabVars>>

\* The setTimeout(..., 500) callback of executeAIDeduplication: resolve.
AISettle ==
    /\ aiOp.timer = "timeout"
    /\ aiOp' = [aiOp EXCEPT !.timer = "none"]
    /\ promise' = Resolved(AIReport(aiOp))
    /\ history' = Append(history, Did("resolve", 0))
    /\ UNCHANGED <<call, fixOps, compOp, emitted>>
    /\ UNCHANGED <<concurrentVars, searchVars, interfaceVars, tabVars>>

(***************************************************************************)
(* The specification.                                                      *)
(***************************************************************************)

Next ==
    \/ CallExecuteFixOperation
    \/ \E id \in DOMAIN fixOps : FixTick(id)
    \/ \E id \in DOMAIN fixOps : FixSettle(id)
    \/ CallExecuteComprehensiveFix
    \/ CompSubOperationDone
    \/ CompPauseElapsed
    \/ CallExecuteAIDeduplication
    \/ AITick
    \/ AISettle

Spec == Init /\ [][Next]_vars

\* Timers that are set fire and awaited promises continue: every pending
\* interval tick, timeout and continuation runs.
FairSpec ==
    /\ Spec
    /\ WF_vars(\E id \in DOMAIN fixOps : FixTick(id))
    /\ WF_vars(\E id \in DOMAIN fixOps : FixSettle(id))
    /\ WF_vars(CompSubOperationDone)
    /\ WF_vars(CompPauseElapsed)
    /\ WF_vars(AITick)
    /\ WF_vars(AISettle)

(***************************************************************************)
(* executeFixOperation called by several callers at once.  Every call      *)
(* creates its own closure (progress, currentStep, progressInterval, the   *)
(* onProgress and resolve it was given); the timers' callbacks of the      *)
(* invocations in flight interleave in any order.                          *)
(***************************************************************************)

\* Number of callers with an invocation of executeFixOperation in flight.
MaxInFlight == 2

\* The operation types the concurrent callers ask for (the same type twice
\* and two different types both occur).
ConcurrentTypeInputs == {"missing_primary", "orphaned_songs"}

\* The closure of a call of executeFixOperation(operationType, onProgress):
\* the callback it was given, the timer id setInterval returned (none when
\* the promise was rejected before setInterval) and its promise.
Invocation(operationType, onProgress, progressInterval, start) ==
    [operationType |-> operationType, onProgress |-> onProgress,
     progressInterval |-> IF start.ops = <<>> THEN 0 ELSE progressInterval,
     currentStep |-> 0, progress |-> FZero, promise |-> start.promise]

\* The k-th caller invokes executeFixOperation(operationType, onProgress)
\* with a callback of its own (callback k); setInterval hands out timer k.
ConcurrentCallExecuteFixOperation ==
    /\ Len(invocations) < MaxInFlight
    /\ \E operationType \in ConcurrentTypeInputs, netFails \in BOOLEAN :
          LET k     == Len(invocations) + 1
              start == StartFixOperation(operationType, "caller", k, netFails)
          IN  /\ invocations' =
                    Append(invocations, Invocation(operationType, k, k, start))
              /\ timers' = Append(timers, IF start.ops = <<>> THEN "none"
                                          ELSE "interval")
              /\ received' = Append(received, <<>>)
    /\ UNCHANGED <<coordinatorVars, searchVars, interfaceVars, tabVars>>

\* A tick whose progress event goes to the callback registered last (an
\* onProgress kept in one place for all invocations).
ConcurrentFixTickLastCallback(k) ==
    /\ timers[k] = "interval"
    /\ LET op          == invocations[k]
           currentStep == op.currentStep + 1
           progress    == StepProgress(currentStep)
       IN  /\ invocations' = [invocations EXCEPT ![k].currentStep = currentStep,
                                                 ![k].progress = progress]
           /\ received' = [received EXCEPT ![Len(received)] =
                 Append(@, FixEvent(op.operationType, currentStep, progress))]
           /\ timers' = [timers EXCEPT ![op.progressInterval] =
                 IF FixFinished(progress) THEN "timeout" ELSE @]
    /\ UNCHANGED <<coordinatorVars, searchVars, interfaceVars, tabVars>>

\* The setInterval callback of the k-th invocation: it advances the
\* closure's own currentStep and progress, passes the event to the closure's
\* onProgress and, at 100, clears the closure's progressInterval and sets
\* the 500 ms timeout.
ConcurrentFixTick(k) ==
    /\ timers[k] = "interval"
    /\ LET op          == invocations[k]
           currentStep == op.currentStep + 1
           progress    == StepProgress(currentStep)
       IN  /\ invocations' = [invocations EXCEPT ![k].currentStep = currentStep,
                                                 ![k].progress = progress]
           /\ received' = [received EXCEPT ![op.onProgress] =
                 Append(@, FixEvent(op.operationType, currentStep, progress))]
           /\ timers' = [timers EXCEPT ![op.progressInterval] =
                 IF FixFinished(progress) THEN "timeout" ELSE @]
    /\ UNCHANGED <<coordinatorVars, searchVars, interfaceVars, tabVars>>

\* The setTimeout(..., 500) callback of the k-th invocation: the closure's
\* resolve, with the closure's operationType.
ConcurrentFixSettle(k) ==
    /\ timers[k] = "timeout"
    /\ timers' = [timers EXCEPT ![k] = "none"]
    /\ invocations' = [invocations EXCEPT ![k].promise =
                          Resolved(FixReport(invocations[k].operationType))]
    /\ UNCHANGED received
    /\ UNCHANGED <<coordinatorVars, searchVars, interfaceVars, tabVars>>

ConcurrentNext ==
    \/ ConcurrentCallExecuteFixOperation
    \/ \E k \in DOMAIN invocations : ConcurrentFixTick(k)
    \/ \E k \in DOMAIN invocations : ConcurrentFixSettle(k)

ConcurrentSpec == Init /\ [][ConcurrentNext]_vars

(***************************************************************************)
(* searchService.js.  A JavaScript string is [kind |-> "string", chars |-> *)
(* the sequence of its characters]; undefined is [kind |-> "undefined"].   *)
(* The two characters of the fixture name "Beyonc.." outside ASCII are     *)
(* written "Atilde" and "copyright".                                       *)
(***************************************************************************)


\* A test that takes only undefined as absent (value === undefined).
FalsyOnlyUndefined(value) == value.kind = "undefined"

\* !value for a value that is a string or undefined: '' and undefined are
\* falsy.
Falsy(value) == value.kind = "undefined" \/ value.chars = <<>>

\* String.prototype.toLowerCase on the characters that occur in the catalogs
\* and queries.
LowerCaseOf ==
    [A |-> "a", B |-> "b", C |-> "c", D |-> "d", E |-> "e", F |-> "f",
     G |-> "g", H |-> "h", I |-> "i", J |-> "j", K |-> "k", L |-> "l",
     M |-> "m", N |-> "n", O |-> "o", P |-> "p", Q |-> "q", R |-> "r",
     S |-> "s", T |-> "t", U |-> "u", V |-> "v", W |-> "w", X |-> "x",
     Y |-> "y", Z |-> "z", Atilde |-> "atilde"]

\* String.prototype.toLowerCase
ToLowerCase(chars) ==
    [i \in 1..Len(chars) |->
        IF chars[i] \in DOMAIN LowerCaseOf THEN LowerCaseOf[chars[i]]
        ELSE chars[i]]

\* The white space String.prototype.trim removes (of the characters that
\* occur in the catalogs and queries).
WhiteSpace == {" "}

RECURSIVE TrimStartFrom(_, _)
TrimStartFrom(chars, i) ==
    IF i > Len(chars) THEN <<>>
    ELSE IF chars[i] \in WhiteSpace THEN TrimStartFrom(chars, i + 1)
    ELSE SubSeq(chars, i, Len(chars))

RECURSIVE TrimEndFrom(_, _)
TrimEndFrom(chars, j) ==
    IF j < 1 THEN <<>>
    ELSE IF chars[j] \in WhiteSpace THEN TrimEndFrom(chars, j - 1)
    ELSE SubSeq(chars, 1, j)

\* String.prototype.trim
Trim(chars) ==
    TrimEndFrom(TrimStartFrom(chars, 1), Len(TrimStartFrom(chars, 1)))

\* str.toLowerCase().trim()
Normalize(chars) == Trim(ToLowerCase(chars))

\* String.prototype.includes: part occurs in chars as a substring (the empty
\* string occurs in every string).
Includes(chars, part) ==
    \E i \in 0..(Len(chars) - Len(part)) :
        SubSeq(chars, i + 1, i + Len(part)) = part

\* String.prototype.startsWith
StartsWith(chars, part) ==
    Len(part) <= Len(chars) /\ SubSeq(chars, 1, Len(part)) = part

\* Array.prototype.includes on the characters of a string.
HasChar(chars, c) == \E i \in 1..Len(chars) : chars[i] = c

\* chars1.filter(char => chars2.includes(char)).length
CommonChars(chars1, chars2) ==
    Cardinality({i \in 1..Len(chars1) : HasChar(chars2, chars1[i])})

\* Math.max on two lengths.
MaxLength(chars1, chars2) ==
    IF Len(chars1) >= Len(chars2) THEN Len(chars1) ELSE Len(chars2)

(***************************************************************************)
(* Scores are Numbers.  Two positive Numbers carry full 53-bit             *)
(* significands, so they compare by exponent and then by significand.      *)
(***************************************************************************)

\* Whether digit sequence a is above digit sequence b of the same length.
LimbsGreater(a, b) ==
    \E i \in 1..Len(a) :
        a[i] > b[i] /\ \A j \in 1..(i - 1) : a[j] = b[j]

\* x > y for non-negative Numbers.
NumberGreater(x, y) ==
    /\ x.m # <<>>
    /\ \/ y.m = <<>>
       \/ x.e > y.e
       \/ x.e = y.e /\ LimbsGreater(x.m, y.m)

\* Math.max(x, y)
MathMax(x, y) == IF NumberGreater(y, x) THEN y ELSE x

\* The literals 1, 0.8, 0.7 and 0.3: a decimal literal denotes the Number
\* nearest to it, which is the correctly rounded quotient.
One == NumberOfNat(1)
ZeroPointEight == NumberOver(NumberOfNat(8), 10)
ZeroPointSeven == NumberOver(NumberOfNat(7), 10)
ZeroPointThree == NumberOver(NumberOfNat(3), 10)

\* The longest string of the catalogs ("Watermelon Sugar (Remix)").
LongestName == 24

\* commonChars.length / Math.max(chars1.length, chars2.length) for the
\* lengths the catalogs give rise to, computed once.
RatioByLengths ==
    [common \in 0..LongestName, longer \in 1..LongestName |->
        NumberOver(NumberOfNat(common), longer)]

\* commonChars.length / Math.max(chars1.length, chars2.length)
Ratio(common, longer) ==
    IF <<common, longer>> \in DOMAIN RatioByLengths
    THEN RatioByLengths[common, longer]
    ELSE NumberOver(NumberOfNat(common), longer)

\* calculateSimilarity after both strings were lowercased and trimmed.
SimilarityOfNormalized(s1, s2) ==
    IF s1 = s2 THEN One
    ELSE IF Includes(s1, s2) \/ Includes(s2, s1) THEN ZeroPointEight
    ELSE Ratio(CommonChars(s1, s2), MaxLength(s1, s2))

\* calculateSimilarity(str1, str2)
calculateSimilarity(str1, str2) ==
    IF Falsy(str1) \/ Falsy(str2) THEN FZero
    ELSE SimilarityOfNormalized(Normalize(str1.chars), Normalize(str2.chars))

(***************************************************************************)
(* searchSongs and searchArtists.                                          *)
(***************************************************************************)

\* alias_status of a catalog entry: whether the alias map has its id.
AliasStatus(aliases, id) ==
    IF id \in DOMAIN aliases THEN "Has Aliases" ELSE "No Aliases"

\* The object the first map of searchSongs builds for a song.
ScoredSong(song, searchTerm) ==
    [alias_status |-> AliasStatus(mockSongAliases, song.id),
     canonical_song_id |-> song.id,
     relevance |-> MathMax(calculateSimilarity(String(song.song), searchTerm),
                           calculateSimilarity(String(song.artist_0), searchTerm))]
    @@ song

\* The object the first map of searchArtists builds for an artist.
ScoredArtist(artist, searchTerm) ==
    [alias_status |-> AliasStatus(mockArtistAliases, artist.id),
     relevance |-> calculateSimilarity(String(artist.name), searchTerm)]
    @@ artist

\* aExact: a.song.toLowerCase().includes(searchTerm.toLowerCase()) ? 1 : 0
\* in searchSongs, a.name.toLowerCase().startsWith(...) ? 1 : 0 in
\* searchArtists.
ExactMatch(api, a, searchTerm) ==
    IF api = "searchSongs"
    THEN (IF Includes(ToLowerCase(a.song), ToLowerCase(searchTerm.chars))
          THEN 1 ELSE 0)
    ELSE (IF StartsWith(ToLowerCase(a.name), ToLowerCase(searchTerm.chars))
          THEN 1 ELSE 0)

\* The sign of b.relevance - a.relevance.
RelevanceOrder(a, b) ==
    IF NumberGreater(b.relevance, a.relevance) THEN 1
    ELSE IF NumberGreater(a.relevance, b.relevance) THEN -1
    ELSE 0

\* A comparator that ignores the exact matches.
CompareByRelevanceOnly(api, a, b, searchTerm) == RelevanceOrder(a, b)

\* A comparator with the operands of the first difference exchanged
\* (aExact - bExact): exact matches go last.
CompareExactLast(api, a, b, searchTerm) ==
    IF ExactMatch(api, a, searchTerm) # ExactMatch(api, b, searchTerm)
    THEN ExactMatch(api, a, searchTerm) - ExactMatch(api, b, searchTerm)
    ELSE RelevanceOrder(a, b)

\* The comparator passed to sort: negative when a is to come first.
Compare(api, a, b, searchTerm) ==
    IF ExactMatch(api, a, searchTerm) # ExactMatch(api, b, searchTerm)
    THEN ExactMatch(api, b, searchTerm) - ExactMatch(api, a, searchTerm)
    ELSE RelevanceOrder(a, b)

RECURSIVE InsertFrom(_, _, _, _, _)
\* sorted with x put in before the first element from index i on that the
\* comparator places after x.
InsertFrom(sorted, x, i, api, searchTerm) ==
    IF i > Len(sorted) THEN Append(sorted, x)
    ELSE IF Compare(api, sorted[i], x, searchTerm) > 0
    THEN SubSeq(sorted, 1, i - 1) \o <<x>> \o SubSeq(sorted, i, Len(sorted))
    ELSE InsertFrom(sorted, x, i + 1, api, searchTerm)

RECURSIVE SortFrom(_, _, _, _, _)
\* Array.prototype.sort with the comparator above: a stable sort, done by
\* inserting the elements from index i on into sorted.
SortFrom(items, i, sorted, api, searchTerm) ==
    IF i > Len(items) THEN sorted
    ELSE SortFrom(items, i + 1, InsertFrom(sorted, items[i], 1, api, searchTerm),
                  api, searchTerm)

Sort(items, api, searchTerm) == SortFrom(items, 1, <<>>, api, searchTerm)

\* The limit parameter with its default: limit = 50.
LimitOrDefault(limit) == IF limit.kind = "undefined" THEN 50 ELSE limit.value

\* A slice that keeps the whole array.
SliceAll(items, end) == items

\* Array.prototype.slice(0, end) for an integer end; a negative end counts
\* from the end of the array.
Slice(items, end) ==
    IF end >= Len(items) THEN items
    ELSE IF end >= 0 THEN SubSeq(items, 1, end)
    ELSE SubSeq(items, 1, Len(items) + end)

\* .map(({ relevance, ...song }) => song)
StripRelevance(items) ==
    [i \in 1..Len(items) |->
        [f \in DOMAIN items[i] \ {"relevance"} |-> items[i][f]]]

\* A filter that lets every item through.
RelevantAll(items) == items

\* .filter(song => song.relevance > 0.3)
Relevant(items) ==
    SelectSeq(items, LAMBDA item : NumberGreater(item.relevance, ZeroPointThree))

\* mockSongsDatabase.map(song => ({...}))
ScoredSongs(searchTerm) ==
    [i \in 1..Len(mockSongsDatabase) |->
        ScoredSong(mockSongsDatabase[i], searchTerm)]

ScoredArtists(searchTerm) ==
    [i \in 1..Len(mockArtistsDatabase) |->
        ScoredArtist(mockArtistsDatabase[i], searchTerm)]

\* The chain map, filter, sort, slice, map of searchSongs / searchArtists.
Ranked(scored, api, searchTerm, limit) ==
    StripRelevance(Slice(Sort(Relevant(scored), api, searchTerm),
                         LimitOrDefault(limit)))

\* A guard without the length test: if (!searchTerm).
TooShortOnlyFalsy(searchTerm) == Falsy(searchTerm)

\* if (!searchTerm || searchTerm.length < 2): the length is the one of the
\* string as passed.
TooShort(searchTerm) == Falsy(searchTerm) \/ Len(searchTerm.chars) < 2

\* What the setTimeout callback of searchSongs / searchArtists does when
\* Math.random() in simulateNetworkError gave netFails.
SearchOutcome(api, searchTerm, limit, netFails) ==
    IF netFails THEN Rejected("Network connection failed")
    ELSE IF TooShort(searchTerm) THEN Resolved(<<>>)
    ELSE Resolved(Ranked(IF api = "searchSongs" THEN ScoredSongs(searchTerm)
                         ELSE ScoredArtists(searchTerm),
                         api, searchTerm, limit))

\* An array in which the items were sorted in place is the songs catalog.
SongsArray(items) == [items |-> items, of |-> "songs"]

\* The array a call of map, filter or slice returns: a new array, none of
\* the module-level ones (of: which fixture the array is).
NewArray(items) == [items |-> items, of |-> "none"]

\* The array .sort(...) is called on in searchSongs / searchArtists: the one
\* .filter(...) returned.
SortReceiver(api, searchTerm) ==
    NewArray(Relevant(IF api = "searchSongs" THEN ScoredSongs(searchTerm)
                      ELSE ScoredArtists(searchTerm)))

\* Array.prototype.sort sorts its receiver in place: the fixtures after
\* receiver.sort(...).  A fixture that is the receiver holds the sorted items.
SortedInPlace(fx, receiver, api, searchTerm) ==
    IF receiver.of = "none" THEN fx
    ELSE [fx EXCEPT ![receiver.of] = Sort(receiver.items, api, searchTerm)]

\* Whether that callback gets to the statement that reads the catalog: only
\* past the network check and the length check.
ConsultsCatalog(searchTerm, netFails) == ~netFails /\ ~TooShort(searchTerm)

(***************************************************************************)
(* getSongVariants and getArtistVariants.                                  *)
(***************************************************************************)

\* Array.prototype.find(x => x.id === id): the first entry with the id, or
\* undefined.
FindById(database, id) ==
    IF \E i \in 1..Len(database) : database[i].id = id
    THEN database[CHOOSE i \in 1..Len(database) :
                     /\ database[i].id = id
                     /\ \A j \in 1..(i - 1) : database[j].id # id]
    ELSE Undefined

\* aliasMap[id] || []
AliasesOf(aliases, id) == IF id \in DOMAIN aliases THEN aliases[id] ELSE <<>>

\* aliases.map(alias => [alias, 'Direct Alias'])
DirectAliases(aliases) ==
    [i \in 1..Len(aliases) |-> <<aliases[i], "Direct Alias">>]

\* The siblings of a song: other songs of the same artist_0 whose title
\* scores above 0.7 against the song's title.
SiblingSongs(song) ==
    SelectSeq(mockSongsDatabase,
              LAMBDA s : /\ s.id # song.id
                         /\ s.artist_0 = song.artist_0
                         /\ NumberGreater(calculateSimilarity(String(s.song),
                                                              String(song.song)),
                                          ZeroPointSeven))

\* siblingSongs.map(s => [s.id, s.song, s.artist_0, 'Sibling Song'])
SiblingRows(siblings) ==
    [i \in 1..Len(siblings) |->
        <<siblings[i].id, siblings[i].song, siblings[i].artist_0,
          "Sibling Song">>]

\* The value getSongVariants resolves with for a song of the catalog (no
\* catalog song has a canonical_song_id, so the fourth entry is its id).
SongBundle(song) ==
    [songData |->
        [original |-> <<song.id, song.song, song.artist_0, song.id>>,
         aliases |-> DirectAliases(AliasesOf(mockSongAliases, song.id)),
         canonical_aliases |-> <<>>,
         sibling_songs |-> SiblingRows(SiblingSongs(song)),
         referring_songs |-> <<>>],
     variants |-> AliasesOf(mockSongAliases, song.id)]

\* The songs whose artist_0 is the artist's name.
SongsOf(artist) ==
    SelectSeq(mockSongsDatabase, LAMBDA s : s.artist_0 = artist.name)

\* .map(s => [s.id, s.song, true])
SampleRows(songs) ==
    [i \in 1..Len(songs) |-> <<songs[i].id, songs[i].song, TRUE>>]

\* The value getArtistVariants resolves with for an artist of the catalog.
ArtistBundle(artist) ==
    [artistData |->
        [original |-> <<artist.id, artist.name>>,
         aliases |-> DirectAliases(AliasesOf(mockArtistAliases, artist.id)),
         song_stats |-> <<artist.song_count, artist.primary_count,
                          artist.featured_count>>,
         sample_songs |-> SampleRows(Slice(SongsOf(artist), 10))],
     variants |-> AliasesOf(mockArtistAliases, artist.id)]

\* A lookup without the if (!song) exit: reading song.artist_0 of undefined
\* throws, and the catch rejects.
SongLookupThrowing(song) ==
    IF song = Undefined
    THEN Rejected("Cannot read properties of undefined")
    ELSE Resolved(SongBundle(song))

\* if (!song) resolve({ songData: null, variants: [] }), else the bundle.
SongLookup(song) ==
    IF song = Undefined
    THEN Resolved([songData |-> Null, variants |-> <<>>])
    ELSE Resolved(SongBundle(song))

ArtistLookup(artist) ==
    IF artist = Undefined
    THEN Resolved([artistData |-> Null, variants |-> <<>>])
    ELSE Resolved(ArtistBundle(artist))

\* What the setTimeout callback of getSongVariants / getArtistVariants does.
VariantsOutcome(api, id, netFails) ==
    IF netFails THEN Rejected("Network connection failed")
    ELSE IF api = "getSongVariants"
    THEN SongLookup(FindById(mockSongsDatabase, id))
    ELSE ArtistLookup(FindById(mockArtistsDatabase, id))

(***************************************************************************)
(* Inputs of the search service.                                           *)
(***************************************************************************)

\* Longest query typed character by character.
MaxTermLen == 3

\* The characters queries are typed from: letters in both cases and a space.
TermAlphabet == {"a", "r", "t", "T", " "}

\* Largest limit argument.
MaxLimit == 3

\* Longest string of a direct call of calculateSimilarity.
MaxStringLen == 2

StringsUpTo(n) == UNION {[1..k -> TermAlphabet] : k \in 0..n}

\* Whole names of the catalog, in other cases and with padding.
CatalogTerms ==
    {<<"S", "T", "A", "Y">>, <<"d", "r", "a", "k", "e", " ">>,
     <<" ", "M", "o", "o", "d">>}

\* searchTerm: undefined, every string of up to MaxTermLen characters, and
\* the catalog names.
SearchTermInputs ==
    {Undefined} \cup {String(chars) : chars \in StringsUpTo(MaxTermLen)}
    \cup {String(chars) : chars \in CatalogTerms}

\* limit: left out, or 0..MaxLimit.
LimitInputs == {Undefined} \cup {Num(n) : n \in 0..MaxLimit}

\* The arguments of calculateSimilarity.
SimilarityInputs ==
    {Undefined} \cup {String(chars) : chars \in StringsUpTo(MaxStringLen)}

\* Ids of the catalogs and ids that name nothing.
IdInputs ==
    {mockSongsDatabase[i].id : i \in 1..Len(mockSongsDatabase)}
    \cup {mockArtistsDatabase[i].id : i \in 1..Len(mockArtistsDatabase)}
    \cup {0, 19, 47794, 47824}

(***************************************************************************)
(* The search service: calls and their setTimeout callbacks.               *)
(***************************************************************************)

Returned(value) == [state |-> "returned", value |-> value]

\* A caller invokes searchSongs(searchTerm, limit) or
\* searchArtists(searchTerm, limit): the promise is created and the timeout
\* set.
CallSearch(api) ==
    /\ request.api = "none"
    /\ \E searchTerm \in SearchTermInputs, limit \in LimitInputs :
          request' = [api |-> api, searchTerm |-> searchTerm, limit |-> limit]
    /\ response' = Pending
    /\ UNCHANGED <<consulted, fixtures, coordinatorVars, concurrentVars,
                 interfaceVars, tabVars>>

\* The setTimeout callback of searchSongs / searchArtists.
SearchTimeout(api) ==
    /\ request.api = api
    /\ response.state = "pending"
    /\ \E netFails \in BOOLEAN :
          /\ response' = SearchOutcome(api, request.searchTerm, request.limit,
                                       netFails)
          /\ consulted' = ConsultsCatalog(request.searchTerm, netFails)
          /\ fixtures' =
                IF ConsultsCatalog(request.searchTerm, netFails)
                THEN SortedInPlace(fixtures,
                                   SortReceiver(api, request.searchTerm),
                                   api, request.searchTerm)
                ELSE fixtures
    /\ UNCHANGED <<request, coordinatorVars, concurrentVars, interfaceVars,
                 tabVars>>

\* A caller invokes getSongVariants(id) or getArtistVariants(id).
CallVariants(api) ==
    /\ request.api = "none"
    /\ \E id \in IdInputs : request' = [api |-> api, id |-> id]
    /\ response' = Pending
    /\ UNCHANGED <<consulted, fixtures, coordinatorVars, concurrentVars,
                 interfaceVars, tabVars>>

\* The setTimeout callback of getSongVariants / getArtistVariants.
VariantsTimeout(api) ==
    /\ request.api = api
    /\ response.state = "pending"
    /\ \E netFails \in BOOLEAN :
          response' = VariantsOutcome(api, request.id, netFails)
    /\ UNCHANGED <<request, consulted, fixtures, coordinatorVars,
                 concurrentVars, interfaceVars, tabVars>>

\* calculateSimilarity(str1, str2) is evaluated.
CallCalculateSimilarity ==
    /\ request.api = "none"
    /\ \E str1 \in SimilarityInputs, str2 \in SimilarityInputs :
          /\ request' = [api |-> "calculateSimilarity", str1 |-> str1,
                         str2 |-> str2]
          /\ response' = Returned(calculateSimilarity(str1, str2))
    /\ UNCHANGED <<consulted, fixtures, coordinatorVars, concurrentVars,
                 interfaceVars, tabVars>>

(***************************************************************************)
(* advancedSearch and getSearchSuggestions.                                *)
(***************************************************************************)

\* The decimal digits; Digits[d + 1] is the character of digit d.
Digits == <<"0", "1", "2", "3", "4", "5", "6", "7", "8", "9">>

NaN == [kind |-> "NaN"]

RECURSIVE ParseDigitsFrom(_, _, _)
\* The digits of chars from index i on, read up to the first character that
\* is no digit; acc is the Number read so far, NaN while there is none.
ParseDigitsFrom(chars, i, acc) ==
    IF i <= Len(chars) /\ \E d \in 0..9 : Digits[d + 1] = chars[i]
    THEN ParseDigitsFrom(chars, i + 1,
             Num(10 * (IF acc = NaN THEN 0 ELSE acc.value)
                 + (CHOOSE d \in 0..9 : Digits[d + 1] = chars[i])))
    ELSE acc

\* parseInt(string): leading white space is skipped, the digits that follow
\* are read, and the result is NaN when there are none.
ParseInt(value) == ParseDigitsFrom(TrimStartFrom(value.chars, 1), 1, NaN)

RECURSIVE Decimal(_)
\* `${n}` for a non-negative integer n.
Decimal(n) ==
    IF n < 10 THEN <<Digits[n + 1]>>
    ELSE Decimal(n \div 10) \o <<Digits[(n % 10) + 1]>>

\* filters.name, with filters = {} when the argument is left out: undefined
\* for a property the object does not have.
Filter(filters, name) ==
    IF filters = Undefined THEN Undefined
    ELSE IF name \in DOMAIN filters THEN filters[name]
    ELSE Undefined

\* The callback of the filter over mockSongsDatabase: let matches = true and
\* the four if statements that may clear it.
SongMatches(song, query, filters) ==
    /\ \/ Falsy(query)
       \/ Includes(ToLowerCase(song.song), ToLowerCase(query.chars))
       \/ Includes(ToLowerCase(song.artist_0), ToLowerCase(query.chars))
    /\ \/ Falsy(Filter(filters, "year"))
       \/ "release_year" \notin DOMAIN song
       \/ Num(song.release_year) = ParseInt(Filter(filters, "year"))
    /\ \/ Falsy(Filter(filters, "genre"))
       \/ "genre_0" \notin DOMAIN song
       \/ Includes(ToLowerCase(song.genre_0),
                   ToLowerCase(Filter(filters, "genre").chars))
    /\ \/ Falsy(Filter(filters, "artistCount"))
       \/ /\ ~(/\ Filter(filters, "artistCount") = String(<<"s", "o", "l", "o">>)
               /\ song.artist_count # 1)
          /\ ~(/\ Filter(filters, "artistCount")
                     = String(<<"c", "o", "l", "l", "a", "b">>)
               /\ song.artist_count <= 1)

\* x >= parseInt(bound) and x <= parseInt(bound): false when the bound is NaN.
AtLeastParsed(x, bound) == ParseInt(bound) # NaN /\ x >= ParseInt(bound).value
AtMostParsed(x, bound) == ParseInt(bound) # NaN /\ x <= ParseInt(bound).value

\* The callback of the filter over mockArtistsDatabase.
ArtistMatches(artist, query, filters) ==
    /\ \/ Falsy(query)
       \/ Includes(ToLowerCase(artist.name), ToLowerCase(query.chars))
    /\ \/ Falsy(Filter(filters, "minSongs"))
       \/ AtLeastParsed(artist.song_count, Filter(filters, "minSongs"))
    /\ \/ Falsy(Filter(filters, "maxSongs"))
       \/ AtMostParsed(artist.song_count, Filter(filters, "maxSongs"))

\* .map(x => ({ ...x, alias_status: aliases[x.id] ? ... : ... }))
WithAliasStatus(items, aliases) ==
    [i \in 1..Len(items) |->
        [alias_status |-> AliasStatus(aliases, items[i].id)] @@ items[i]]

\* filters.limit || 20
LimitOr20(limit) ==
    IF limit = Undefined \/ limit.value = 0 THEN 20 ELSE limit.value

\* if (!filters.type || filters.type === 'songs') (likewise 'artists')
CategorySelected(type, category) == Falsy(type) \/ type = String(category)

\* The results object advancedSearch resolves with.
AdvancedSearchResults(query, filters) ==
    [songs |->
        IF CategorySelected(Filter(filters, "type"), <<"s", "o", "n", "g", "s">>)
        THEN Slice(WithAliasStatus(
                       SelectSeq(mockSongsDatabase,
                                 LAMBDA song : SongMatches(song, query, filters)),
                       mockSongAliases),
                   LimitOr20(Filter(filters, "limit")))
        ELSE <<>>,
     artists |->
        IF CategorySelected(Filter(filters, "type"),
                            <<"a", "r", "t", "i", "s", "t", "s">>)
        THEN Slice(WithAliasStatus(
                       SelectSeq(mockArtistsDatabase,
                                 LAMBDA artist :
                                     ArtistMatches(artist, query, filters)),
                       mockArtistAliases),
                   LimitOr20(Filter(filters, "limit")))
        ELSE <<>>]

\* What the setTimeout callback of advancedSearch does when Math.random()
\* in simulateNetworkError gave netFails.
AdvancedSearchOutcome(query, filters, netFails) ==
    IF netFails THEN Rejected("Network connection failed")
    ELSE Resolved(AdvancedSearchResults(query, filters))

\* The list getSearchSuggestions resolves with: up to 3 songs whose title
\* and up to 3 artists whose name contains the query.
Suggestions(query) ==
    IF TooShort(query) THEN <<>>
    ELSE LET songs == Slice(SelectSeq(mockSongsDatabase, LAMBDA song :
                                Includes(ToLowerCase(song.song),
                                         ToLowerCase(query.chars))), 3)
             artists == Slice(SelectSeq(mockArtistsDatabase, LAMBDA artist :
                                  Includes(ToLowerCase(artist.name),
                                           ToLowerCase(query.chars))), 3)
         IN  [i \in 1..Len(songs) |->
                 [type |-> "song", text |-> songs[i].song,
                  subtext |-> <<"b", "y", " ">> \o songs[i].artist_0]]
             \o [i \in 1..Len(artists) |->
                    [type |-> "artist", text |-> artists[i].name,
                     subtext |-> Decimal(artists[i].song_count)
                                 \o <<" ", "s", "o", "n", "g", "s">>]]

\* Longest query of advancedSearch typed character by character.
MaxQueryLen == 1

\* query: undefined, every string of up to MaxQueryLen characters, and the
\* catalog names.
QueryInputs ==
    {Undefined} \cup {String(chars) : chars \in StringsUpTo(MaxQueryLen)}
    \cup {String(chars) : chars \in CatalogTerms}

\* filters: left out, or an object whose fields are undefined, the strings
\* the form's inputs and selects give, or strings that are no number.
FiltersInputs ==
    {Undefined} \cup
    [type : {Undefined, String(<<"a", "l", "l">>),
             String(<<"s", "o", "n", "g", "s">>),
             String(<<"a", "r", "t", "i", "s", "t", "s">>)},
     year : {Undefined, String(<<"2", "0", "2", "0">>), String(<<"x">>)},
     genre : {String(<<>>), String(<<"p", "o", "p">>)},
     artistCount : {Undefined, String(<<"s", "o", "l", "o">>),
                    String(<<"c", "o", "l", "l", "a", "b">>)},
     minSongs : {Undefined, String(<<"9", "0">>)},
     maxSongs : {Undefined, String(<<"1", "0", "0">>)},
     limit : {Undefined, Num(0), Num(2)}]

\* A caller invokes advancedSearch(query, filters).
CallAdvancedSearch ==
    /\ request.api = "none"
    /\ \E query \in QueryInputs, filters \in FiltersInputs :
          request' = [api |-> "advancedSearch", query |-> query,
                      filters |-> filters]
    /\ response' = Pending
    /\ UNCHANGED <<consulted, fixtures, coordinatorVars, concurrentVars,
                   interfaceVars, tabVars>>

\* The setTimeout callback of advancedSearch.  No array is sorted.
AdvancedSearchTimeout ==
    /\ request.api = "advancedSearch"
    /\ response.state = "pending"
    /\ \E netFails \in BOOLEAN :
          response' = AdvancedSearchOutcome(request.query, request.filters,
                                            netFails)
    /\ UNCHANGED <<request, consulted, fixtures, coordinatorVars,
                   concurrentVars, interfaceVars, tabVars>>

\* A caller invokes getSearchSuggestions(query).
CallGetSearchSuggestions ==
    /\ request.api = "none"
    /\ \E query \in SearchTermInputs :
          request' = [api |-> "getSearchSuggestions", query |-> query]
    /\ response' = Pending
    /\ UNCHANGED <<consulted, fixtures, coordinatorVars, concurrentVars,
                   interfaceVars, tabVars>>

\* The setTimeout callback of getSearchSuggestions: no network check, no
\* array is sorted.
SuggestionsTimeout ==
    /\ request.api = "getSearchSuggestions"
    /\ response.state = "pending"
    /\ response' = Resolved(Suggestions(request.query))
    /\ UNCHANGED <<request, consulted, fixtures, coordinatorVars,
                   concurrentVars, interfaceVars, tabVars>>

(***************************************************************************)
(* The search service over HTTP (src/unnamed/part_000): the two functions  *)
(* without an endpoint.  They are async functions, so a throw rejects the  *)
(* returned promise and a return resolves it; no timer is set.             *)
(***************************************************************************)

\* advancedSearch(query, filters): throw new Error(...)
HttpAdvancedSearch ==
    /\ request.api = "none"
    /\ \E query \in QueryInputs, filters \in FiltersInputs :
          request' = [api |-> "http.advancedSearch", query |-> query,
                      filters |-> filters]
    /\ response' = Rejected("Advanced search API not implemented")
    /\ UNCHANGED <<consulted, fixtures, coordinatorVars, concurrentVars,
                   interfaceVars, tabVars>>

\* getSearchSuggestions(query): return []
HttpGetSearchSuggestions ==
    /\ request.api = "none"
    /\ \E query \in SearchTermInputs :
          request' = [api |-> "http.getSearchSuggestions", query |-> query]
    /\ response' = Resolved(<<>>)
    /\ UNCHANGED <<consulted, fixtures, coordinatorVars, concurrentVars,
                   interfaceVars, tabVars>>

SearchNext ==
    \/ CallSearch("searchSongs")
    \/ SearchTimeout("searchSongs")
    \/ CallSearch("searchArtists")
    \/ SearchTimeout("searchArtists")
    \/ CallVariants("getSongVariants")
    \/ VariantsTimeout("getSongVariants")
    \/ CallVariants("getArtistVariants")
    \/ VariantsTimeout("getArtistVariants")
    \/ CallCalculateSimilarity
    \/ CallAdvancedSearch
    \/ AdvancedSearchTimeout
    \/ CallGetSearchSuggestions
    \/ SuggestionsTimeout
    \/ HttpAdvancedSearch
    \/ HttpGetSearchSuggestions

SearchSpec == Init /\ [][SearchNext]_vars

(***************************************************************************)
(* SearchInterface (src/src/components/search/SearchInterface.jsx).  The   *)
(* component's state is searchInterface; pendingCalls holds the debounce   *)
(* timer of the suggestions effect (debounce: a timer is set), the         *)
(* getSearchSuggestions calls and the performSearch calls that have not    *)
(* settled, and three records of what happened: issued (how many searches  *)
(* were started; each search carries its number n), shown (the number of   *)
(* the search whose settlement last wrote results, 0 after a clear) and    *)
(* cleared (clearSearch ran and no query of 2 or more characters was typed *)
(* since), latest (the results the most recently issued search settled     *)
(* with).                                                                  *)
(***************************************************************************)

\* Most performSearch calls of one behaviour.
MaxSearches == 2

\* Most getSearchSuggestions calls in flight at once.
MaxSuggestionRequests == 1

\* What the user types into the search box.
TypedInputs == {<<>>, <<"m", "o">>}

\* The filter changes the user makes: handleFilterChange(filterName, value).
FilterChangeInputs == {<<"type", String(<<"s", "o", "n", "g", "s">>)>>}

\* The suggestions effect after a render with searchQuery value: when the
\* dependency changed, the cleanup clears the timer and a new one is set.
DebounceAfter(value) ==
    IF value # searchInterface.searchQuery THEN TRUE ELSE pendingCalls.debounce

\* performSearch(query) up to its await, from state si and calls pc: nothing
\* for a query that trims to '', else loading and hasSearched are set and
\* the service is called with the mode and filters of the render.
PerformSearch(si, pc, query) ==
    IF Trim(query) = <<>> THEN [si |-> si, pc |-> pc]
    ELSE [si |-> [si EXCEPT !.loading = TRUE, !.hasSearched = TRUE],
          pc |-> [pc EXCEPT
                    !.searches = Append(@, [query |-> query,
                                            searchMode |-> si.searchMode,
                                            filters |-> si.filters,
                                            n |-> pc.issued + 1]),
                    !.issued = @ + 1]]

\* What the awaited call of a search gives: with searchMode 'advanced' the
\* outcome of advancedSearch, else Promise.all of searchSongs and
\* searchArtists, which rejects when either does.
SearchResults(search, netFails, netFails2) ==
    IF search.searchMode = "advanced"
    THEN AdvancedSearchOutcome(String(search.query), search.filters, netFails)
    ELSE LET songs == SearchOutcome("searchSongs", String(search.query),
                                    search.filters.limit, netFails)
             artists == SearchOutcome("searchArtists", String(search.query),
                                      search.filters.limit, netFails2)
         IN  IF songs.state = "rejected" THEN songs
             ELSE IF artists.state = "rejected" THEN artists
             ELSE Resolved([songs |-> songs.value, artists |-> artists.value])

\* handleInputChange: the user types value into the search box.
HandleInputChange ==
    \E value \in TypedInputs :
       /\ searchInterface' = [searchInterface EXCEPT !.searchQuery = value,
                                                     !.showSuggestions = TRUE]
       /\ pendingCalls' = [pendingCalls EXCEPT
                             !.debounce = DebounceAfter(value),
                             !.cleared = @ /\ Len(value) < 2]
       /\ UNCHANGED <<coordinatorVars, concurrentVars, searchVars, tabVars>>

\* The debounce timer of the suggestions effect fires.
DebounceTimeout ==
    /\ pendingCalls.debounce
    /\ IF Len(searchInterface.searchQuery) >= 2
       THEN /\ Len(pendingCalls.suggestions) < MaxSuggestionRequests
            /\ pendingCalls' = [pendingCalls EXCEPT
                                  !.debounce = FALSE,
                                  !.suggestions =
                                      Append(@, searchInterface.searchQuery)]
            /\ UNCHANGED searchInterface
       ELSE /\ pendingCalls' = [pendingCalls EXCEPT !.debounce = FALSE]
            /\ searchInterface' = [searchInterface EXCEPT !.suggestions = <<>>]
    /\ UNCHANGED <<coordinatorVars, concurrentVars, searchVars, tabVars>>

\* A getSearchSuggestions call resolves: .then(setSuggestions).  Every call
\* waits 200 ms, so the calls resolve in the order they were made.
SuggestionsResolved ==
    /\ pendingCalls.suggestions # <<>>
    /\ searchInterface' =
          [searchInterface EXCEPT
              !.suggestions = Suggestions(String(Head(pendingCalls.suggestions)))]
    /\ pendingCalls' = [pendingCalls EXCEPT !.suggestions = Tail(@)]
    /\ UNCHANGED <<coordinatorVars, concurrentVars, searchVars, tabVars>>

\* handleSuggestionClick: the user clicks suggestion k of the dropdown.
HandleSuggestionClick ==
    /\ searchInterface.showSuggestions
    /\ pendingCalls.issued < MaxSearches
    /\ \E k \in 1..Len(searchInterface.suggestions) :
          LET text == searchInterface.suggestions[k].text
              next == PerformSearch(
                          [searchInterface EXCEPT !.searchQuery = text,
                                                  !.showSuggestions = FALSE],
                          [pendingCalls EXCEPT !.debounce = DebounceAfter(text)],
                          text)
          IN  /\ searchInterface' = next.si
              /\ pendingCalls' = next.pc
    /\ UNCHANGED <<coordinatorVars, concurrentVars, searchVars, tabVars>>

\* handleKeyPress with the Enter key, and the click on the Search button
\* (enabled while no search is loading and the query does not trim to ''):
\* performSearch() with the query of the box.
HandleKeyPress ==
    /\ pendingCalls.issued < MaxSearches
    /\ LET next == PerformSearch(
                       [searchInterface EXCEPT !.showSuggestions = FALSE],
                       pendingCalls, searchInterface.searchQuery)
       IN  /\ searchInterface' = next.si
           /\ pendingCalls' = next.pc
    /\ UNCHANGED <<coordinatorVars, concurrentVars, searchVars, tabVars>>

\* The rest of performSearch: the awaited call of search k settles (every
\* call has its own random latency, so in any order).  setResults with the
\* result, or with empty lists in the catch block; finally setLoading(false).
SearchSettled ==
    /\ \E k \in 1..Len(pendingCalls.searches), netFails \in BOOLEAN,
          netFails2 \in BOOLEAN :
          LET search == pendingCalls.searches[k]
              settled == SearchResults(search, netFails, netFails2)
              results == IF settled.state = "resolved" THEN settled.value
                         ELSE [songs |-> <<>>, artists |-> <<>>]
          IN  /\ netFails2 => search.searchMode = "simple"
              /\ searchInterface' =
                    [searchInterface EXCEPT !.results = results,
                                            !.loading = FALSE]
              /\ pendingCalls' =
                    [pendingCalls EXCEPT
                        !.searches = SubSeq(@, 1, k - 1)
                                     \o SubSeq(@, k + 1, Len(@)),
                        !.shown = search.n,
                        !.latest = IF search.n = pendingCalls.issued
                                   THEN results ELSE @]
    /\ UNCHANGED <<coordinatorVars, concurrentVars, searchVars, tabVars>>

\* clearSearch: the Clear button, enabled while no search is loading.
ClearSearch ==
    /\ ~searchInterface.loading
    /\ searchInterface' =
          [searchInterface EXCEPT
              !.searchQuery = <<>>,
              !.results = [songs |-> <<>>, artists |-> <<>>],
              !.hasSearched = FALSE, !.suggestions = <<>>,
              !.showSuggestions = FALSE, !.filters = DefaultFilters]
    /\ pendingCalls' = [pendingCalls EXCEPT !.debounce = DebounceAfter(<<>>),
                                            !.shown = 0, !.cleared = TRUE]
    /\ UNCHANGED <<coordinatorVars, concurrentVars, searchVars, tabVars>>

\* The radio buttons of the search mode: setSearchMode(e.target.value).
SetSearchMode ==
    /\ \E mode \in {"simple", "advanced"} :
          searchInterface' = [searchInterface EXCEPT !.searchMode = mode]
    /\ UNCHANGED <<pendingCalls, coordinatorVars, concurrentVars, searchVars,
                   tabVars>>

\* handleFilterChange(filterName, value); the filter row is rendered in
\* advanced mode.
HandleFilterChange ==
    /\ searchInterface.searchMode = "advanced"
    /\ \E change \in FilterChangeInputs :
          searchInterface' =
              [searchInterface EXCEPT !.filters[change[1]] = change[2]]
    /\ UNCHANGED <<pendingCalls, coordinatorVars, concurrentVars, searchVars,
                   tabVars>>

\* onFocus of the search box and the mousedown handler outside of it:
\* setShowSuggestions(suggestions.length > 0) and setShowSuggestions(false).
SetShowSuggestions ==
    /\ \E focus \in BOOLEAN :
          searchInterface' =
              [searchInterface EXCEPT
                  !.showSuggestions = focus /\ searchInterface.suggestions # <<>>]
    /\ UNCHANGED <<pendingCalls, coordinatorVars, concurrentVars, searchVars,
                   tabVars>>

InterfaceNext ==
    \/ HandleInputChange
    \/ DebounceTimeout
    \/ SuggestionsResolved
    \/ HandleSuggestionClick
    \/ HandleKeyPress
    \/ SearchSettled
    \/ ClearSearch
    \/ SetSearchMode
    \/ HandleFilterChange
    \/ SetShowSuggestions

InterfaceSpec == Init /\ [][InterfaceNext]_vars

(***************************************************************************)
(* DatabaseFixesTab and the ProgressModal it renders.  tabTasks holds the  *)
(* pending work of the tab: load (the loadData call: "effect" when the     *)
(* mount effect has yet to run, "fetching" while the three fetches are     *)
(* awaited, "idle"), operation (the coordinator call of handleFixOperation *)
(* under way, or null), reload (the 1 s timer set after a successful       *)
(* operation is pending) and started (the operations started so far).      *)
(* modal is the ProgressModal instance of the last render of the tab.      *)
(***************************************************************************)

\* Most operations the user starts in one behaviour.
MaxOperations == 2

\* .slice(-20): the log entries the progress effect keeps.
KeptLogEntries == 20

\* The ids the buttons pass to handleFixOperation: operation.id of the four
\* cards and 'comprehensive'.
TabOperationInputs == DOMAIN mockFixResults \cup {"comprehensive"}

\* getOperationName(operationType): names[operationType] || operationType.
getOperationName(operationType) ==
    CASE operationType = "missing_primary" -> "Missing Primary Artists Fix"
      [] operationType = "orphaned_songs" -> "Orphaned Songs Fix"
      [] operationType = "inconsistent_artists" -> "Artist Inconsistencies Fix"
      [] operationType = "missing_secondary" -> "Missing Secondary Artists Fix"
      [] operationType = "comprehensive" -> "Comprehensive Database Enhancement"
      [] operationType = "ai_artists_deduplication" -> "AI Artist Deduplication"
      [] operationType = "ai_songs_deduplication" -> "Enhanced Song Deduplication"
      [] OTHER -> operationType

\* The name property of the entries of the operations array.
operationName(i) ==
    CASE i = 0 -> "Missing Primary Artists"
      [] i = 1 -> "Artist Inconsistencies"
      [] i = 2 -> "Orphaned Songs"
      [] i = 3 -> "Missing Secondary Artists"

\* `(${Math.floor(progress * total / 100)} of ${total})...` after text.
CountedMessage(text, progress, total) ==
    <<text, " (">> \o Decimal(ComputeAICallsUsed(progress, total))
        \o <<" of ">> \o Decimal(total) \o <<")...">>

\* The message of a tick of executeFixOperation: the template literals of
\* the if / else-if chains, held as the sequence of their text chunks and
\* the digits of the numbers they embed; '' when no branch names the type.
FixMessage(operationType, progress) ==
    LET fixResult == mockFixResults[operationType]
    IN  IF operationType = "missing_primary" THEN
            IF NumberLess(progress, 30)
            THEN <<"Analyzing ">> \o Decimal(fixResult.totalIssues)
                     \o <<" songs with missing primary artists...">>
            ELSE IF NumberLess(progress, 60)
            THEN <<"Deleting ">> \o Decimal(fixResult.deleted)
                     \o <<" invalid records...">>
            ELSE IF NumberLess(progress, 90)
            THEN <<"Repairing ">> \o Decimal(fixResult.repaired)
                     \o <<" songs with valid data...">>
            ELSE <<"Verifying fixes and updating statistics...">>
        ELSE IF operationType = "orphaned_songs" THEN
            IF NumberLess(progress, 25)
            THEN <<"Finding ">> \o Decimal(fixResult.totalIssues)
                     \o <<" orphaned songs...">>
            ELSE IF NumberLess(progress, 75)
            THEN CountedMessage("Creating artist relationships", progress,
                                fixResult.relationshipsCreated)
            ELSE <<"Verifying all relationships created successfully...">>
        ELSE IF operationType = "inconsistent_artists" THEN
            IF NumberLess(progress, 40)
            THEN <<"Analyzing ">> \o Decimal(fixResult.totalIssues)
                     \o <<" artist name inconsistencies...">>
            ELSE IF NumberLess(progress, 80)
            THEN CountedMessage("Updating artist relationships", progress,
                                fixResult.fixed)
            ELSE <<"Verifying all artist names are consistent...">>
        ELSE IF operationType = "missing_secondary" THEN
            IF NumberLess(progress, 20)
            THEN <<"Analyzing secondary artists in ">>
                     \o Decimal(fixResult.totalIssues) \o <<" songs...">>
            ELSE IF NumberLess(progress, 40)
            THEN <<"Creating ">> \o Decimal(fixResult.artistsCreated)
                     \o <<" missing artists...">>
            ELSE IF NumberLess(progress, 80)
            THEN CountedMessage("Creating secondary relationships", progress,
                                fixResult.relationshipsCreated)
            ELSE <<"Verifying all secondary artist relationships...">>
        ELSE <<>>

\* The messages of the ticks of a run, computed once.
FixMessageByStep ==
    [operationType \in DOMAIN mockFixResults |->
        [currentStep \in 1..totalSteps |->
            FixMessage(operationType, StepProgress(currentStep))]]

\* The object a tick of executeFixOperation passes to onProgress, with its
\* message property.
FixEventWithMessage(operationType, currentStep) ==
    [message |-> String(FixMessageByStep[operationType][currentStep])]
        @@ FixEvent(operationType, currentStep, StepProgress(currentStep))

\* What handleFixOperation's callback is passed by a tick of the operation
\* op: the event itself, or its projection by the comprehensive callback
\* (message: subProgress.message).
TabTickEvent(op) ==
    LET subProgress == FixEventWithMessage(op.type, op.currentStep + 1)
    IN  IF op.comprehensive
        THEN [message |-> subProgress.message] @@ ProjectedEvent(op.i, subProgress)
        ELSE subProgress

\* The announcement of phase i with its message `Starting ${operation.name}...`.
TabAnnouncement(i) ==
    [message |-> String(<<"Starting ", operationName(i), "...">>)]
        @@ PhaseAnnouncement(i)

\* The value the awaited coordinator resolves with, finalMessage included.
TabResult(operationType) ==
    IF operationType = "comprehensive"
    THEN [finalMessage |->
              String(<<"Comprehensive database enhancement completed successfully!">>)]
             @@ ComprehensiveReport(mockFixResults)
    ELSE [finalMessage |->
              String(<<getOperationName(operationType), " completed successfully!">>)]
             @@ FixReport(operationType)

\* ProgressModal after a render of the tab in state tab, m being the
\* instance of the render before.  The tab renders the modal only in its
\* main tree: the early returns for loading and for error render a spinner
\* or an alert card, and the instance with its logs is discarded.  A newly
\* mounted instance runs both effects; otherwise an effect runs when one of
\* its dependencies changed.  The effects run in the order they are
\* declared: the progress effect appends and keeps the last entries, the
\* completion effect appends.  (timestamp is left out of the entries.)
RenderProgressModal(tab, m) ==
    IF tab.loading \/ tab.error # Null THEN Unmounted
    ELSE LET message == IF tab.progressData = Null THEN Undefined
                        ELSE tab.progressData.message
             completed == <<tab.isOperationComplete, tab.operationResults>>
             logged == Append(m.logs,
                           [message |-> message,
                            type |-> IF tab.progressData.progress = 100
                                     THEN "success" ELSE "info"])
             afterProgress ==
                 IF (~m.mounted \/ message # m.message) /\ ~Falsy(message)
                 THEN SubSeq(logged,
                             IF Len(logged) > KeptLogEntries
                             THEN Len(logged) - KeptLogEntries + 1 ELSE 1,
                             Len(logged))
                 ELSE m.logs
             afterCompletion ==
                 IF /\ ~m.mounted \/ completed # m.completed
                    /\ tab.isOperationComplete
                    /\ tab.operationResults # Null
                 THEN Append(afterProgress,
                          [message |-> IF Falsy(tab.operationResults.finalMessage)
                                       THEN String(<<"Operation completed successfully!">>)
                                       ELSE tab.operationResults.finalMessage,
                           type |-> "success"])
                 ELSE afterProgress
         IN  [mounted |-> TRUE, logs |-> afterCompletion, message |-> message,
              completed |-> completed]

\* loadData() up to its await: setLoading(true), setError(null) and the
\* simulated network check, whose error is caught at once (setError,
\* setLoading(false) in the finally block); else the three fetches start.
LoadData(netFails) ==
    /\ fixesTab' = IF netFails
                   THEN [fixesTab EXCEPT
                            !.loading = FALSE,
                            !.error = String(<<"Network connection failed">>)]
                   ELSE [fixesTab EXCEPT !.loading = TRUE, !.error = Null]
    /\ modal' = RenderProgressModal(fixesTab', modal)

\* useEffect(() => { loadData(); }, [refreshTrigger]) after the mount.
LoadOnMount ==
    /\ tabTasks.load = "effect"
    /\ \E netFails \in BOOLEAN :
          /\ LoadData(netFails)
          /\ tabTasks' = [tabTasks EXCEPT
                             !.load = IF netFails THEN "idle" ELSE "fetching"]
    /\ UNCHANGED <<coordinatorVars, concurrentVars, searchVars, interfaceVars>>

\* The 'Retry Connection' button of the alert card: onClick={loadData}.
RetryConnection ==
    /\ ~fixesTab.loading
    /\ fixesTab.error # Null
    /\ tabTasks.load = "idle"
    /\ \E netFails \in BOOLEAN :
          /\ LoadData(netFails)
          /\ tabTasks' = [tabTasks EXCEPT
                             !.load = IF netFails THEN "idle" ELSE "fetching"]
    /\ UNCHANGED <<coordinatorVars, concurrentVars, searchVars, interfaceVars>>

\* setTimeout(() => { loadData(); }, 1000) fires.
ReloadTimeout ==
    /\ tabTasks.reload
    /\ \E netFails \in BOOLEAN :
          /\ LoadData(netFails)
          /\ tabTasks' = [tabTasks EXCEPT
                             !.reload = FALSE,
                             !.load = IF netFails THEN "idle" ELSE "fetching"]
    /\ UNCHANGED <<coordinatorVars, concurrentVars, searchVars, interfaceVars>>

\* The rest of loadData: Promise.all of the three fetches resolves (none of
\* them rejects); setData, and setLoading(false) in the finally block.
LoadSettled ==
    /\ tabTasks.load = "fetching"
    /\ fixesTab' = [fixesTab EXCEPT !.data = "loaded", !.loading = FALSE]
    /\ modal' = RenderProgressModal(fixesTab', modal)
    /\ tabTasks' = [tabTasks EXCEPT !.load = "idle"]
    /\ UNCHANGED <<coordinatorVars, concurrentVars, searchVars, interfaceVars>>

\* The catch block of handleFixOperation: setError(error.message) and
\* setShowProgress(false).
OperationFailed(tab, start) ==
    [tab EXCEPT !.error = String(<<start.promise.error>>),
                !.showProgress = FALSE]

\* Phase i of executeComprehensiveFix up to its await, from tab state tab:
\* the announcement goes to setProgressData, then executeFixOperation is
\* called; its rejection is thrown by the await and ends in the catch block
\* of handleFixOperation.
TabBeginPhase(tab, i, netFails) ==
    LET start == StartFixOperation(operations[i + 1].type, "comprehensive", i,
                                   netFails)
        announced == [tab EXCEPT !.progressData = TabAnnouncement(i)]
    IN  IF start.promise.state = "rejected"
        THEN [tab |-> OperationFailed(announced, start), operation |-> Null]
        ELSE [tab |-> announced,
              operation |-> [type |-> operations[i + 1].type, i |-> i,
                             comprehensive |-> TRUE, pc |-> "interval",
                             currentStep |-> 0]]

\* handleFixOperation(operationType) up to its await (the buttons are in the
\* main tree of the tab, under the overlay of an open modal): the five
\* setters, then the coordinator the id selects.  No button passes an id
\* that starts with 'ai_'.
HandleFixOperation ==
    /\ ~fixesTab.loading
    /\ fixesTab.error = Null
    /\ ~fixesTab.showProgress
    /\ tabTasks.operation = Null
    /\ tabTasks.started < MaxOperations
    /\ \E operationType \in TabOperationInputs, netFails \in BOOLEAN,
          netFails2 \in BOOLEAN :
          LET opened == [fixesTab EXCEPT !.currentOperation = String(<<operationType>>),
                                         !.showProgress = TRUE,
                                         !.isOperationComplete = FALSE,
                                         !.progressData = Null,
                                         !.operationResults = Null]
              start == StartFixOperation(operationType, "caller", 0, netFails)
              next ==
                  IF operationType = "comprehensive"
                  THEN IF netFails
                       THEN [tab |-> [opened EXCEPT
                                         !.error = String(<<"Network connection failed">>),
                                         !.showProgress = FALSE],
                             operation |-> Null]
                       ELSE TabBeginPhase(opened, 0, netFails2)
                  ELSE IF start.promise.state = "rejected"
                  THEN [tab |-> OperationFailed(opened, start),
                        operation |-> Null]
                  ELSE [tab |-> opened,
                        operation |-> [type |-> operationType, i |-> 0,
                                       comprehensive |-> FALSE,
                                       pc |-> "interval", currentStep |-> 0]]
          IN  /\ netFails2 => (operationType = "comprehensive" /\ ~netFails)
              /\ fixesTab' = next.tab
              /\ tabTasks' = [tabTasks EXCEPT !.operation = next.operation,
                                              !.started = @ + 1]
              /\ modal' = RenderProgressModal(fixesTab', modal)
    /\ UNCHANGED <<coordinatorVars, concurrentVars, searchVars, interfaceVars>>

\* A tick of the executeFixOperation call under way: the event, projected
\* when the call is a sub-operation, goes to setProgressData; the tick that
\* reaches 100 clears the interval and sets the 500 ms timer.
TabFixTick ==
    /\ tabTasks.operation # Null
    /\ tabTasks.operation.pc = "interval"
    /\ LET op == tabTasks.operation
       IN  /\ fixesTab' = [fixesTab EXCEPT !.progressData = TabTickEvent(op)]
           /\ tabTasks' =
                 [tabTasks EXCEPT
                     !.operation.currentStep = @ + 1,
                     !.operation.pc =
                         IF FixFinished(StepProgress(op.currentStep + 1))
                         THEN "settle" ELSE "interval"]
    /\ modal' = RenderProgressModal(fixesTab', modal)
    /\ UNCHANGED <<coordinatorVars, concurrentVars, searchVars, interfaceVars>>

\* The rest of handleFixOperation after a resolved await:
\* setOperationResults(result), setIsOperationComplete(true) and the timer
\* of the reload.
OperationSucceeded(operationType) ==
    /\ fixesTab' = [fixesTab EXCEPT !.operationResults = TabResult(operationType),
                                    !.isOperationComplete = TRUE]
    /\ tabTasks' = [tabTasks EXCEPT !.operation = Null, !.reload = TRUE]
    /\ modal' = RenderProgressModal(fixesTab', modal)

\* The 500 ms timer of executeFixOperation resolves its promise: the await
\* of handleFixOperation, or the await of the comprehensive loop, which then
\* stores the result and pauses for 1 s.  (An operation takes 4.5 s or
\* more, the reload of the operation before it 2.5 s at most.)
TabFixSettle ==
    /\ tabTasks.operation # Null
    /\ tabTasks.operation.pc = "settle"
    /\ ~tabTasks.reload
    /\ tabTasks.load = "idle"
    /\ IF tabTasks.operation.comprehensive
       THEN /\ tabTasks' = [tabTasks EXCEPT !.operation.pc = "pause"]
            /\ UNCHANGED <<fixesTab, modal>>
       ELSE OperationSucceeded(tabTasks.operation.type)
    /\ UNCHANGED <<coordinatorVars, concurrentVars, searchVars, interfaceVars>>

\* The pause between the sub-operations ends: the next pass of the loop, or
\* after the last one the totals and resolve.
TabPauseElapsed ==
    /\ tabTasks.operation # Null
    /\ tabTasks.operation.pc = "pause"
    /\ IF tabTasks.operation.i + 1 < Len(operations)
       THEN \E netFails \in BOOLEAN :
               LET next == TabBeginPhase(fixesTab, tabTasks.operation.i + 1,
                                         netFails)
               IN  /\ fixesTab' = next.tab
                   /\ tabTasks' = [tabTasks EXCEPT !.operation = next.operation]
                   /\ modal' = RenderProgressModal(fixesTab', modal)
       ELSE OperationSucceeded("comprehensive")
    /\ UNCHANGED <<coordinatorVars, concurrentVars, searchVars, interfaceVars>>

\* closeProgressModal, through handleClose of the modal (which returns early
\* unless isCompleted, allowCancel being false).
CloseProgressModal ==
    /\ modal.mounted
    /\ fixesTab.showProgress
    /\ fixesTab.isOperationComplete
    /\ fixesTab' = [fixesTab EXCEPT !.showProgress = FALSE,
                                    !.progressData = Null,
                                    !.operationResults = Null,
                                    !.isOperationComplete = FALSE,
                                    !.currentOperation = Null]
    /\ modal' = RenderProgressModal(fixesTab', modal)
    /\ UNCHANGED <<tabTasks, coordinatorVars, concurrentVars, searchVars,
                   interfaceVars>>

TabNext ==
    \/ LoadOnMount
    \/ RetryConnection
    \/ ReloadTimeout
    \/ LoadSettled
    \/ HandleFixOperation
    \/ TabFixTick
    \/ TabFixSettle
    \/ TabPauseElapsed
    \/ CloseProgressModal

TabSpec == Init /\ [][TabNext]_vars

(***************************************************************************)
(* Properties of the coordinators.                                         *)
(***************************************************************************)

KnownOperationTypes == DOMAIN mockFixResults

\* The progress values of a sequence of events never go down.
ProgressNonDecreasing(events) ==
    \A n \in 1..(Len(events) - 1) : events[n].progress <= events[n + 1].progress

HistoryHas(what) == \E n \in DOMAIN history : history[n].what = what

\* A run of executeFixOperation with one of the four known operation types.
KnownFixRun == call.api = "fix" /\ call.operationType \in KnownOperationTypes

\* C1: in a run of executeFixOperation with a known operation type the
\* progress values passed to onProgress never decrease, and once the interval
\* is stopped (so whenever the promise resolves) the last value passed is 100.
C1_ProgressNonDecreasingEndsAt100 ==
    KnownFixRun =>
        /\ ProgressNonDecreasing(emitted)
        /\ \A id \in DOMAIN fixOps :
              (call.onProgress /\ fixOps[id].timer # "interval") =>
                  /\ emitted # <<>>
                  /\ emitted[Len(emitted)].progress = 100
        /\ (call.onProgress /\ promise.state = "resolved") =>
              /\ emitted # <<>>
              /\ emitted[Len(emitted)].progress = 100

\* C1 witness: a known operation has resolved after all its ticks were
\* delivered to the callback.
C1_Witness ==
    /\ KnownFixRun
    /\ call.onProgress
    /\ promise.state = "resolved"
    /\ Len(emitted) = totalSteps

\* C2: a run that is rejected by the simulated network failure has not
\* invoked onProgress before the rejection (stated for all three
\* coordinators).
C2_NoProgressBeforeNetworkFailure ==
    (promise.state = "rejected" /\ promise.error = "Network connection failed")
        => emitted = <<>>

\* C3: executeFixOperation with an operation type that is not a key of
\* mockFixResults rejects, starts no timer and never invokes onProgress.
C3_UnknownTypeRejectsBeforeTimer ==
    (call.api = "fix" /\ call.operationType \notin KnownOperationTypes) =>
        /\ promise.state = "rejected"
        /\ ~HistoryHas("setInterval")
        /\ emitted = <<>>

CountHistory(what) == Cardinality({n \in DOMAIN history : history[n].what = what})

\* A run of executeFixOperation of a known type whose timer was started.
StartedFixRun == KnownFixRun /\ HistoryHas("setInterval")

\* What holds in every state of a started run: it is not rejected, resolve
\* is called at most once, and a resolved run has success = true, was
\* resolved by the timeout that followed the clearing of the interval, and
\* had progress 100 delivered last.
StartedFixRunSafe ==
    /\ promise.state # "rejected"
    /\ CountHistory("resolve") <= 1
    /\ CountHistory("reject") = 0
    /\ promise.state = "resolved" =>
          /\ promise.value.success = TRUE
          /\ promise.value.operationType = call.operationType
          /\ CountHistory("resolve") = 1
          /\ Len(history) >= 2
          /\ history[Len(history)].what = "resolve"
          /\ history[Len(history) - 1].what = "clearInterval"
          /\ call.onProgress =>
                (emitted # <<>> /\ emitted[Len(emitted)].progress = 100)

\* C4: every run of executeFixOperation that has started its timer
\* eventually resolves; it resolves once, with success = true, only after
\* the callback with progress 100 and the settle timeout; it never rejects;
\* and after the resolution no further progress callback is made and the
\* promise does not change.
C4_StartedFixRunSettles ==
    /\ StartedFixRun ~> (promise.state = "resolved")
    /\ [](StartedFixRun => StartedFixRunSafe)
    /\ [][(StartedFixRun /\ promise.state = "resolved")
            => (emitted' = emitted /\ promise' = promise)]_vars

\* C4 witness: a started run of a known type has resolved with a callback.
C4_Witness ==
    /\ StartedFixRun
    /\ call.onProgress
    /\ promise.state = "resolved"
    /\ fixOps[1].currentStep = totalSteps

(***************************************************************************)
(* executeComprehensiveFix: sequencing, announcements, totals, progress.   *)
(***************************************************************************)

ComprehensiveRun == call.api = "comprehensive"

\* A comprehensive run that resolved with a callback.
ComprehensiveDone ==
    ComprehensiveRun /\ call.onProgress /\ promise.state = "resolved"

\* The order in which the sub-operations are to run.
SubOperationOrder ==
    <<"missing_primary", "inconsistent_artists", "orphaned_songs",
      "missing_secondary">>

\* What may directly follow a step d of a comprehensive run: each
\* sub-operation is announced, started, ticks until its interval is cleared,
\* resolves, and is followed by the pause; only after the pause has elapsed
\* does the next announcement (or the resolution of the run) come.
MayFollow(d, next) ==
    IF d.what = "announce"
    THEN next \in {Did("setInterval", d.idx), Did("reject", d.idx)}
    ELSE IF d.what = "setInterval" THEN next = Did("tick", d.idx)
    ELSE IF d.what = "tick"
    THEN next \in {Did("tick", d.idx), Did("clearInterval", d.idx)}
    ELSE IF d.what = "clearInterval" THEN next = Did("subResolved", d.idx)
    ELSE IF d.what = "subResolved" THEN next = Did("pauseStarted", d.idx)
    ELSE IF d.what = "pauseStarted" THEN next = Did("pauseElapsed", d.idx)
    ELSE IF d.what = "pauseElapsed"
    THEN next = (IF d.idx + 1 < Len(SubOperationOrder)
                 THEN Did("announce", d.idx + 1) ELSE Did("resolve", 0))
    ELSE FALSE

\* C5: in a run of executeComprehensiveFix the sub-operations run one after
\* another in the order missing_primary, inconsistent_artists,
\* orphaned_songs, missing_secondary: sub-operation i+1 is announced and
\* ticks only after sub-operation i has resolved and the pause after it has
\* elapsed, so at most one sub-operation has a timer at any time and the
\* events passed to the callback never go back to an earlier sub-operation.
C5_SubOperationsRunInSequence ==
    ComprehensiveRun =>
        /\ history # <<>> =>
              history[1] \in {Did("announce", 0), Did("reject", 0)}
        /\ \A n \in 1..(Len(history) - 1) : MayFollow(history[n], history[n + 1])
        /\ Len(fixOps) <= Len(SubOperationOrder)
        /\ \A id \in DOMAIN fixOps :
              /\ fixOps[id].operationType = SubOperationOrder[id]
              /\ fixOps[id].i = id - 1
              /\ id < Len(fixOps) =>
                    (fixOps[id].settled /\ fixOps[id].timer = "none")
        /\ \A n \in 1..(Len(emitted) - 1) :
              emitted[n].currentPhase <= emitted[n + 1].currentPhase

\* C5 witness: all four sub-operations have run to their last step, the last
\* one still waiting for its settle timeout.
C5_Witness ==
    /\ ComprehensiveRun
    /\ call.onProgress
    /\ Len(fixOps) = Len(SubOperationOrder)
    /\ \A id \in DOMAIN fixOps : fixOps[id].currentStep = totalSteps
    /\ fixOps[Len(fixOps)].timer = "timeout"

\* A phase announcement is an event that carries no sub-operation progress.
IsAnnouncement(event) == "subProgress" \notin DOMAIN event

Announcements == SelectSeq(emitted, IsAnnouncement)

PhaseStarts == <<0, 25, 50, 75>>

\* C6: the phase announcements of a run of executeComprehensiveFix carry the
\* progress values 0, 25, 50, 75 in that order, each is emitted before the
\* timer of its sub-operation is started and before any tick of it, and a
\* run that completes has emitted exactly four of them.
C6_PhaseAnnouncementsAt0_25_50_75 ==
    (ComprehensiveRun /\ call.onProgress) =>
        /\ Len(Announcements) <= Len(PhaseStarts)
        /\ \A k \in DOMAIN Announcements :
              /\ Announcements[k].progress = PhaseStarts[k]
              /\ Announcements[k].currentPhase = k
        /\ Len(Announcements) = CountHistory("announce")
        /\ \A n \in DOMAIN history :
              history[n].what = "setInterval" =>
                  (n > 1 /\ history[n - 1] = Did("announce", history[n].idx))
        /\ \A n \in DOMAIN emitted :
              ~IsAnnouncement(emitted[n]) =>
                  \E a \in 1..(n - 1) :
                      /\ IsAnnouncement(emitted[a])
                      /\ emitted[a].currentPhase = emitted[n].currentPhase
        /\ promise.state = "resolved" => Len(Announcements) = Len(PhaseStarts)

\* C6 witness: a completed comprehensive run whose callback saw the fourth
\* announcement.
C6_Witness ==
    /\ ComprehensiveDone
    /\ Len(Announcements) = 4
    /\ Announcements[4].progress = 75

\* The bundles of the resolved comprehensive report.
ReportedBundles == promise.value.results

\* C7: the report executeComprehensiveFix resolves with holds the result
\* bundle of each of the four sub-operations (the template of its type), and
\* each field of totals is the sum of the corresponding counters of those
\* bundles; totalErrors is the sum of the four errors fields.
C7_TotalsAreSumsOfBundles ==
    (ComprehensiveRun /\ promise.state = "resolved") =>
        /\ promise.value.success = TRUE
        /\ DOMAIN ReportedBundles = KnownOperationTypes
        /\ \A type \in KnownOperationTypes :
              ReportedBundles[type] = mockFixResults[type]
        /\ promise.value.totals.songsProcessed =
              ReportedBundles["missing_primary"].repaired
              + ReportedBundles["orphaned_songs"].fixed
              + ReportedBundles["missing_secondary"].songsProcessed
        /\ promise.value.totals.recordsDeleted =
              ReportedBundles["missing_primary"].deleted
        /\ promise.value.totals.relationshipsCreated =
              ReportedBundles["orphaned_songs"].relationshipsCreated
              + ReportedBundles["missing_secondary"].relationshipsCreated
        /\ promise.value.totals.artistsCreated =
              ReportedBundles["missing_secondary"].artistsCreated
        /\ promise.value.totals.inconsistenciesFixed =
              ReportedBundles["inconsistent_artists"].fixed
        /\ promise.value.totals.totalErrors =
              ReportedBundles["missing_primary"].errors
              + ReportedBundles["inconsistent_artists"].errors
              + ReportedBundles["orphaned_songs"].errors
              + ReportedBundles["missing_secondary"].errors

\* C7 witness: a comprehensive run has resolved with the sums of the
\* templates' counters.
C7_Witness ==
    /\ ComprehensiveRun
    /\ promise.state = "resolved"
    /\ promise.value.totals.songsProcessed = 111 + 234 + 1234
    /\ promise.value.totals.relationshipsCreated = 387 + 1567

\* C8: the overall progress values a run of executeComprehensiveFix passes
\* to onProgress lie in 0..100, a re-projected tick carries
\* round(phase_start + sub_progress * 25 / 100), the values never decrease
\* over the whole run, and the last one of a completed run is 100.
C8_OverallProgressWithinRangeNonDecreasing ==
    (ComprehensiveRun /\ call.onProgress) =>
        /\ \A n \in DOMAIN emitted :
              /\ emitted[n].progress \in 0..100
              /\ ~IsAnnouncement(emitted[n]) =>
                    emitted[n].progress =
                        25 * (emitted[n].currentPhase - 1)
                        + (emitted[n].subProgress + 2) \div 4
        /\ ProgressNonDecreasing(emitted)
        /\ promise.state = "resolved" =>
              emitted[Len(emitted)].progress = 100

\* C8 witness: a completed comprehensive run delivered all its events, the
\* second phase among them starting at 25.
C8_Witness ==
    /\ ComprehensiveDone
    /\ Len(emitted) = Len(operations) * (totalSteps + 1)
    /\ emitted[totalSteps + 1].progress = 25
    /\ emitted[totalSteps + 2].progress = 25

(***************************************************************************)
(* executeAIDeduplication: the AI-call counter.                            *)
(***************************************************************************)

\* A started artist or song deduplication whose caller supplied the budget:
\* settings.maxAICalls for artists; for songs the budget is 0.
BudgetedAIRun ==
    /\ call.api = "ai"
    /\ call.settings.defined
    /\ \/ call.type = "songs"
       \/ call.type = "artists" /\ "maxAICalls" \in DOMAIN call.settings.obj

CallerBudget ==
    IF call.type = "artists" THEN call.settings.obj.maxAICalls ELSE 0

\* C9: in every progress event of executeAIDeduplication aiCallsUsed is
\* floor(progress * budget / 100) for the caller-supplied budget
\* (settings.maxAICalls for artists, 0 for songs); it never decreases, never
\* exceeds that budget and equals it in the event with progress 100.
C9_AICallsUsedFollowsCallerBudget ==
    BudgetedAIRun =>
        /\ \A n \in DOMAIN emitted :
              /\ emitted[n].aiCallsUsed =
                    (emitted[n].progress * CallerBudget) \div 100
              /\ emitted[n].aiCallsUsed <= CallerBudget
              /\ emitted[n].progress = 100 =>
                    emitted[n].aiCallsUsed = CallerBudget
        /\ \A n \in 1..(Len(emitted) - 1) :
              emitted[n].aiCallsUsed <= emitted[n + 1].aiCallsUsed

(***************************************************************************)
(* executeFixOperation: phases.                                            *)
(***************************************************************************)

\* The phases of each operation type in their order, each with the progress
\* from which it applies.
PhaseThresholds ==
    [missing_primary |->
        << <<0, "Analysis">>, <<30, "Deletion">>, <<60, "Repair">>,
           <<90, "Verification">> >>,
     orphaned_songs |->
        << <<0, "Discovery">>, <<25, "Repair">>, <<75, "Verification">> >>,
     inconsistent_artists |->
        << <<0, "Analysis">>, <<40, "Update">>, <<80, "Verification">> >>,
     missing_secondary |->
        << <<0, "Analysis">>, <<20, "Creation">>, <<40, "Relationships">>,
           <<80, "Verification">> >>]

\* The position, in the type's order, of the phase that applies at progress.
PhaseIndexAt(type, progress) ==
    Cardinality({k \in DOMAIN PhaseThresholds[type] :
                    PhaseThresholds[type][k][1] <= progress})

\* C10: in a run of executeFixOperation of a known type the phase of every
\* tick is the one the type's thresholds give for that tick's progress
\* (missing_primary: Analysis below 30, Deletion below 60, Repair below 90,
\* then Verification); so the phases come in their fixed order, never go
\* back, and a run that has resolved has been through every phase.
C10_PhaseIsFunctionOfProgress ==
    (KnownFixRun /\ call.onProgress) =>
        LET table == PhaseThresholds[call.operationType]
        IN  /\ \A n \in DOMAIN emitted :
                  emitted[n].phase =
                      table[PhaseIndexAt(call.operationType, emitted[n].progress)][2]
            /\ \A n \in 1..(Len(emitted) - 1) :
                  PhaseIndexAt(call.operationType, emitted[n].progress)
                      <= PhaseIndexAt(call.operationType, emitted[n + 1].progress)
            /\ promise.state = "resolved" =>
                  \A k \in DOMAIN table :
                      \E n \in DOMAIN emitted : emitted[n].phase = table[k][2]

\* C10 witness: a missing_primary run has resolved after its tick at
\* progress 30 was labelled Deletion and the one at 29 Analysis.
C10_Witness ==
    /\ KnownFixRun
    /\ call.operationType = "missing_primary"
    /\ call.onProgress
    /\ promise.state = "resolved"
    /\ emitted[29].phase = "Analysis"
    /\ emitted[30].phase = "Deletion"
(***************************************************************************)
(* Properties of concurrent invocations.                                   *)
(***************************************************************************)

\* The events an invocation of the given type has passed on after n ticks.
OwnEvents(operationType, n) ==
    [s \in 1..n |-> FixEvent(operationType, s, StepProgress(s))]

\* C11: when two or more invocations of executeFixOperation are in flight
\* and their ticks interleave, each invocation passes to its own callback
\* exactly its own steps 1, 2, ... with the progress and phase of its own
\* operation type, its timer runs until its own step 100 and no longer, and
\* its promise resolves, after its own step 100 only, with its own
\* operation type.
C11_ConcurrentInvocationsKeepOwnState ==
    \A k \in DOMAIN invocations :
        LET op == invocations[k]
        IN  /\ op.currentStep <= totalSteps
            /\ received[k] = OwnEvents(op.operationType, op.currentStep)
            /\ op.promise.state = "rejected" =>
                  timers[k] = "none" /\ op.currentStep = 0
            /\ op.promise.state # "rejected" =>
                  (timers[k] = "interval" <=> op.currentStep < totalSteps)
            /\ op.promise.state = "resolved" =>
                  /\ op.currentStep = totalSteps
                  /\ timers[k] = "none"
                  /\ op.promise.value.operationType = op.operationType
                  /\ op.promise.value.results.value = mockFixResults[op.operationType]

\* Two invocations of different types are in flight with interleaved ticks
\* (each has ticked, neither is done), and, in another state, both resolved.
C11_Witness ==
    /\ Len(invocations) = 2
    /\ invocations[1].operationType # invocations[2].operationType
    /\ timers[1] = "interval" /\ timers[2] = "interval"
    /\ invocations[1].currentStep = 40
    /\ invocations[2].currentStep = 70

(***************************************************************************)
(* Properties of the search service.                                       *)
(***************************************************************************)

\* A searchSongs / searchArtists call whose promise has settled.
SettledSearch ==
    /\ request.api \in {"searchSongs", "searchArtists"}
    /\ response.state # "pending"

\* A query of fewer than 2 characters: undefined, '' or a single character.
ShorterThanTwo(searchTerm) ==
    searchTerm.kind = "undefined" \/ Len(searchTerm.chars) < 2

\* C12: every call of searchSongs and of searchArtists with a query shorter
\* than 2 characters (the empty and the undefined query included) returns
\* the empty list, and the catalog is not consulted.
C12_ShortQueryReturnsEmptyList ==
    (SettledSearch /\ ShorterThanTwo(request.searchTerm)) =>
        (response = Resolved(<<>>) /\ ~consulted)

\* C12, amended: a call of searchSongs or searchArtists with a query shorter
\* than 2 characters never consults the catalog and resolves to the empty
\* list, unless the simulated network fault rejects it with 'Network
\* connection failed'.
C12_ShortQueryEmptyUnlessNetworkFault ==
    (SettledSearch /\ ShorterThanTwo(request.searchTerm)) =>
        /\ ~consulted
        /\ \/ response = Resolved(<<>>)
           \/ response = Rejected("Network connection failed")

\* A one-character query and the undefined query were searched for and the
\* call resolved to the empty list.
C12_Witness ==
    /\ SettledSearch
    /\ request.searchTerm \in {String(<<"a">>), Undefined}
    /\ response = Resolved(<<>>)

\* C13: searchSongs returns the empty list whenever the query, once the
\* surrounding white space is trimmed, has fewer than 2 characters (a query
\* of spaces only, a single letter padded with spaces), whatever its length
\* before trimming.
C13_TrimmedShortQueryReturnsEmptyList ==
    (/\ request.api = "searchSongs"
     /\ response.state = "resolved"
     /\ request.searchTerm.kind = "string"
     /\ Len(Trim(request.searchTerm.chars)) < 2) =>
        response.value = <<>>

\* A searchSongs call that resolved to a ranked list (the query passed the
\* length check).
ResolvedSongSearch ==
    /\ request.api = "searchSongs"
    /\ response.state = "resolved"

\* C14: for every term and every non-negative limit, the list searchSongs
\* resolves with has at most limit items, and no item of it has a relevance
\* field.
C14_AtMostLimitItemsWithoutRelevance ==
    ResolvedSongSearch =>
        /\ request.limit.kind = "number" =>
              Len(response.value) <= request.limit.value
        /\ \A i \in 1..Len(response.value) :
              "relevance" \notin DOMAIN response.value[i]

\* A search with a limit of at least 1 that more songs passed the filter of
\* than the limit allows: the list holds exactly limit items.
C14_Witness ==
    /\ ResolvedSongSearch
    /\ request.limit.kind = "number"
    /\ request.limit.value >= 1
    /\ Len(response.value) = request.limit.value
    /\ Len(Relevant(ScoredSongs(request.searchTerm))) > request.limit.value

\* The relevance of a song for a term, recomputed:
\* max(similarity(title, term), similarity(primary artist, term)).
SongRelevance(song, searchTerm) ==
    MathMax(calculateSimilarity(String(song.song), searchTerm),
            calculateSimilarity(String(song.artist_0), searchTerm))

\* The ids of the items of a result list.
ResultIds(items) == {items[i].id : i \in 1..Len(items)}

\* C15: every item searchSongs returns has a recomputed relevance strictly
\* above 0.3, and a catalog song whose relevance is 0.3 or less is never
\* returned.
C15_ReturnedSongsScoreAboveThreshold ==
    ResolvedSongSearch =>
        /\ \A i \in 1..Len(response.value) :
              NumberGreater(SongRelevance(response.value[i], request.searchTerm),
                            ZeroPointThree)
        /\ \A j \in 1..Len(mockSongsDatabase) :
              ~NumberGreater(SongRelevance(mockSongsDatabase[j],
                                           request.searchTerm), ZeroPointThree)
                 => mockSongsDatabase[j].id \notin ResultIds(response.value)

\* A search that returns songs while some catalog song scores exactly 0.3
\* for the term (3 common characters over 10) and is left out.
C15_Witness ==
    /\ ResolvedSongSearch
    /\ response.value # <<>>
    /\ \E j \in 1..Len(mockSongsDatabase) :
          /\ SongRelevance(mockSongsDatabase[j], request.searchTerm).m
                = ZeroPointThree.m
          /\ SongRelevance(mockSongsDatabase[j], request.searchTerm).e
                = ZeroPointThree.e
          /\ mockSongsDatabase[j].id \notin ResultIds(response.value)

\* Whether the lowercase title of a returned song contains the lowercase
\* query.
TitleContains(song, searchTerm) ==
    Includes(ToLowerCase(song.song), ToLowerCase(searchTerm.chars))

ResolvedArtistSearch ==
    /\ request.api = "searchArtists"
    /\ response.state = "resolved"

\* Whether an artist's name starts with the query, letter case aside.
NameStartsWith(artist, searchTerm) ==
    StartsWith(ToLowerCase(artist.name), ToLowerCase(searchTerm.chars))

\* C17: in every list searchArtists returns, every artist whose name starts
\* with the query (case-insensitively) stands at or above every returned
\* artist whose name does not start with it; and truncation to the limit
\* never drops an artist whose name starts with the query while it keeps
\* one whose name does not.
C17_PrefixMatchesRankFirst ==
    (ResolvedArtistSearch /\ request.searchTerm.kind = "string") =>
        /\ \A i, j \in 1..Len(response.value) :
              (i < j /\ NameStartsWith(response.value[j], request.searchTerm))
                 => NameStartsWith(response.value[i], request.searchTerm)
        /\ \A a \in 1..Len(mockArtistsDatabase) :
              (/\ NameStartsWith(mockArtistsDatabase[a], request.searchTerm)
               /\ mockArtistsDatabase[a].id \notin ResultIds(response.value))
                 => \A i \in 1..Len(response.value) :
                       NameStartsWith(response.value[i], request.searchTerm)

\* A truncated list in which an artist whose name starts with the query (in
\* another letter case) is kept although an artist that matches without
\* the prefix, and stands earlier in the catalog, is dropped.
C17_Witness ==
    /\ ResolvedArtistSearch
    /\ request.limit.kind = "number"
    /\ Len(response.value) = request.limit.value
    /\ \E i \in 1..Len(response.value) :
          /\ NameStartsWith(response.value[i], request.searchTerm)
          /\ ~StartsWith(response.value[i].name, request.searchTerm.chars)
          /\ \E a \in 1..Len(mockArtistsDatabase) :
                /\ mockArtistsDatabase[a].id < response.value[i].id
                /\ mockArtistsDatabase[a].id \notin ResultIds(response.value)
                /\ ~NameStartsWith(mockArtistsDatabase[a], request.searchTerm)
                /\ NumberGreater(
                      calculateSimilarity(String(mockArtistsDatabase[a].name),
                                          request.searchTerm), ZeroPointThree)

\* calculateSimilarity(str1, str2) has been evaluated.
SimilarityCall == request.api = "calculateSimilarity"

\* C18: similarity is symmetric, similarity(x, y) = similarity(y, x) for all
\* strings x and y, when one string contains the other (substring branch)
\* and when the score is the character-overlap ratio (bag-overlap branch).
C18_SimilarityIsSymmetric ==
    SimilarityCall =>
        response.value = calculateSimilarity(request.str2, request.str1)

\* The empty string or undefined.
EmptyOrUndefined(value) == value = Undefined \/ value = String(<<>>)

\* C19: similarity returns 0 whenever either argument is the empty string or
\* undefined, whatever the other argument is (both empty included).
C19_SimilarityOfEmptyIsZero ==
    (/\ SimilarityCall
     /\ EmptyOrUndefined(request.str1) \/ EmptyOrUndefined(request.str2)) =>
        response = Returned(FZero)

\* The empty string was scored against a string that is not empty (and
\* that contains it).
C19_Witness ==
    /\ SimilarityCall
    /\ request.str1 = String(<<>>)
    /\ request.str2 = String(<<"a", "T">>)
    /\ response = Returned(FZero)

\* The ids of a catalog.
CatalogIds(database) == {database[i].id : i \in 1..Len(database)}

\* C20: for every id that is not in the catalog, every call of
\* getSongVariants(id) resolves to {songData: null, variants: []} and every
\* call of getArtistVariants(id) to {artistData: null, variants: []}; a
\* lookup of an unknown id never throws and never rejects.
C20_UnknownIdResolvesToNullShell ==
    /\ (/\ request.api = "getSongVariants"
        /\ response.state # "pending"
        /\ request.id \notin CatalogIds(mockSongsDatabase)) =>
           response = Resolved([songData |-> Null, variants |-> <<>>])
    /\ (/\ request.api = "getArtistVariants"
        /\ response.state # "pending"
        /\ request.id \notin CatalogIds(mockArtistsDatabase)) =>
           response = Resolved([artistData |-> Null, variants |-> <<>>])

\* A getSongVariants / getArtistVariants call that has settled for an id
\* its catalog does not hold.
SettledUnknownLookup ==
    /\ response.state # "pending"
    /\ \/ /\ request.api = "getSongVariants"
          /\ request.id \notin CatalogIds(mockSongsDatabase)
       \/ /\ request.api = "getArtistVariants"
          /\ request.id \notin CatalogIds(mockArtistsDatabase)

\* C20, amended: for every id that is not in the catalog, a call of
\* getSongVariants(id) resolves to {songData: null, variants: []} and a call
\* of getArtistVariants(id) to {artistData: null, variants: []}, unless the
\* simulated network fault rejects it with 'Network connection failed'; the
\* missing id itself never makes the call throw or reject.
C20_UnknownIdNullShellUnlessNetworkFault ==
    SettledUnknownLookup =>
        \/ response = Rejected("Network connection failed")
        \/ /\ request.api = "getSongVariants"
           /\ response = Resolved([songData |-> Null, variants |-> <<>>])
        \/ /\ request.api = "getArtistVariants"
           /\ response = Resolved([artistData |-> Null, variants |-> <<>>])

\* The id of an artist was looked up as a song and resolved to the null
\* shell.
C20_Witness ==
    /\ request.api = "getSongVariants"
    /\ request.id \in CatalogIds(mockArtistsDatabase)
    /\ response = Resolved([songData |-> Null, variants |-> <<>>])

\* A string of white space only: not empty, empty after trim().
WhitespaceOnly(value) ==
    /\ value.kind = "string"
    /\ value.chars # <<>>
    /\ \A i \in 1..Len(value.chars) : value.chars[i] \in WhiteSpace

\* C25: a string that is empty after trimming is scored like an empty
\* string: similarity(w, y) = 0 and similarity(y, w) = 0 for every
\* whitespace-only string w and every string y.
C25_WhitespaceOnlyScoresZero ==
    (/\ SimilarityCall
     /\ request.str1.kind = "string"
     /\ request.str2.kind = "string"
     /\ WhitespaceOnly(request.str1) \/ WhitespaceOnly(request.str2)) =>
        response = Returned(FZero)

\* The deduplication types executeAIDeduplication has results for.
KnownDedupTypes == {"artists", "songs"}

\* C24: an operation-type identifier that names no known operation is
\* rejected on every fix entry path: executeAIDeduplication called with a
\* type other than 'artists' / 'songs' fails before any timer starts and
\* before any progress is emitted, and never runs some other operation.
C24_UnknownDedupTypeRejectedBeforeTimer ==
    (call.api = "ai" /\ call.type \notin KnownDedupTypes) =>
        /\ promise.state = "rejected"
        /\ aiOp.timer = "none"
        /\ emitted = <<>>
        /\ ~HistoryHas("setInterval")

\* An advancedSearch call whose promise has resolved.
ResolvedAdvancedSearch ==
    request.api = "advancedSearch" /\ response.state = "resolved"

\* A filter that was supplied: a field of the filters object that holds a
\* string that is not empty.
Supplied(name) == ~Falsy(Filter(request.filters, name))

\* C21: every song advancedSearch returns satisfies all the filters that
\* were supplied (its title or primary artist contains the query, its
\* release year equals the year filter, its genre contains the genre filter,
\* its artist count is in the requested solo / collaboration bucket), and
\* every returned artist has the query in its name and a song_count within
\* the min / max bounds.
C21_ReturnedItemsSatisfyAllFilters ==
    ResolvedAdvancedSearch =>
        /\ \A i \in 1..Len(response.value.songs) :
              LET song == response.value.songs[i]
              IN  /\ ~Falsy(request.query) =>
                        \/ Includes(ToLowerCase(song.song),
                                    ToLowerCase(request.query.chars))
                        \/ Includes(ToLowerCase(song.artist_0),
                                    ToLowerCase(request.query.chars))
                  /\ Supplied("year") =>
                        /\ "release_year" \in DOMAIN song
                        /\ Num(song.release_year) = ParseInt(Filter(request.filters, "year"))
                  /\ Supplied("genre") =>
                        /\ "genre_0" \in DOMAIN song
                        /\ Includes(ToLowerCase(song.genre_0),
                                    ToLowerCase(Filter(request.filters, "genre").chars))
                  /\ Filter(request.filters, "artistCount")
                        = String(<<"s", "o", "l", "o">>)
                        => song.artist_count = 1
                  /\ Filter(request.filters, "artistCount")
                        = String(<<"c", "o", "l", "l", "a", "b">>)
                        => song.artist_count > 1
        /\ \A i \in 1..Len(response.value.artists) :
              LET artist == response.value.artists[i]
              IN  /\ ~Falsy(request.query) =>
                        Includes(ToLowerCase(artist.name),
                                 ToLowerCase(request.query.chars))
                  /\ Supplied("minSongs") =>
                        AtLeastParsed(artist.song_count,
                                      Filter(request.filters, "minSongs"))
                  /\ Supplied("maxSongs") =>
                        AtMostParsed(artist.song_count,
                                     Filter(request.filters, "maxSongs"))

\* A call of one of the two functions of the HTTP backend that have no
\* endpoint.
UnimplementedHttpCall ==
    request.api \in {"http.advancedSearch", "http.getSearchSuggestions"}

\* C22: on the HTTP backend advanced search and search suggestions both end
\* in an explicit "not implemented" error when called; neither returns a
\* normal-looking result.
C22_UnimplementedHttpCallsFail ==
    UnimplementedHttpCall => response.state = "rejected"

\* The catalogs and alias maps as searchService.js defines them.
InitialFixtures ==
    [songs |-> mockSongsDatabase, artists |-> mockArtistsDatabase,
     songAliases |-> mockSongAliases, artistAliases |-> mockArtistAliases]

\* C23: the fixture catalogs and the alias maps are read-only: after any
\* sequence of searchSongs, searchArtists, getSongVariants,
\* getArtistVariants, advancedSearch and getSearchSuggestions calls, the
\* in-place sort of the results included, the song catalog, the artist
\* catalog and both alias maps hold the same records with the same field
\* values in the same order as before.
C23_FixturesAreReadOnly == fixtures = InitialFixtures

\* A song search has sorted its matches into an order that is not the
\* order of the catalog (ids go down in the catalog, and a song with a
\* smaller id is returned before one with a larger id), and the fixtures
\* are as they were.
C23_Witness ==
    /\ request.api = "searchSongs"
    /\ response.state = "resolved"
    /\ \E i \in 1..Len(response.value) : \E j \in (i + 1)..Len(response.value) :
          response.value[i].id < response.value[j].id
    /\ fixtures = InitialFixtures

\* C30: advancedSearch called with the type filter 'all' computes both
\* categories: it returns the same songs and the same artists as the call
\* with the same query and the same other filters in which the type filter
\* is absent.
C30_TypeAllEqualsNoTypeFilter ==
    (/\ ResolvedAdvancedSearch
     /\ Filter(request.filters, "type") = String(<<"a", "l", "l">>)) =>
        response.value
            = AdvancedSearchResults(request.query,
                                    [request.filters EXCEPT !.type = Undefined])

\* C27: in SearchInterface, when several searches are in flight at once,
\* then once all of them have settled the displayed results are those of
\* the most recently issued query, never those of an earlier query whose
\* response arrived later.
C27_LatestSearchIsDisplayed ==
    (pendingCalls.searches = <<>> /\ pendingCalls.shown # 0) =>
        searchInterface.results = pendingCalls.latest

\* C29: in SearchInterface, after clearSearch has run, the suggestions list
\* stays empty until the user has again typed a query of at least 2
\* characters: a suggestion request issued before the clear that resolves
\* after it does not repopulate the list.
C29_SuggestionsStayEmptyAfterClear ==
    pendingCalls.cleared => searchInterface.suggestions = <<>>

\* C26: the operation log kept by ProgressModal never holds more than 20
\* entries: after any sequence of progress-message changes and the
\* completion of the operation, which appends the final message, only the
\* last 20 entries are kept.
C26_LogNeverExceedsKeptEntries ==
    Len(modal.logs) <= KeptLogEntries

\* C28: in DatabaseFixesTab, once a fix operation has completed successfully
\* (isOperationComplete is true and its results are set), the progress modal
\* showing those results stays rendered until the user closes it with
\* closeProgressModal: neither the automatic reload 1 second after the
\* completion nor a failure of that reload hides or unmounts it.
C28_CompletedModalStaysRendered ==
    (/\ fixesTab.isOperationComplete
     /\ fixesTab.operationResults # Null
     /\ fixesTab.showProgress) => modal.mounted

====
